---- MODULE Spec2Model ----
(***************************************************************************)
(* The analysis service of journeyworks: the handler analyze_dataset, the  *)
(* DataCardGenerator it calls and the analyzer services behind it.         *)
(*                                                                         *)
(* Numbers.  A float is an exact number: the node Flt(n, d) is n/d and     *)
(* Sqrt(n, d) is sgn(n)*sqrt(|n|/d), so that a standard deviation, a       *)
(* z-score or a Pearson coefficient is held by the rational under its      *)
(* root.  NaN, +Infinity and -Infinity are floats of their own.  Rounding  *)
(* of binary floating point is modelled in one place, the comparison of a  *)
(* z-score that is exactly the threshold: the quotient of the rounded      *)
(* deviation and the rounded standard deviation comes out on the threshold *)
(* or one step past it (9.9 / 3.3 is 3.0000000000000004), and the model    *)
(* leaves which to build.rounding.  round(x, 2) is modelled.               *)
(***************************************************************************)
EXTENDS Integers, Sequences, FiniteSets, TLC

VARIABLES
    datacard_generator, \* the module-level DataCardGenerator and its services
    build,              \* what the installed libraries do where versions differ
    request,            \* the last request sent to POST /api/v1/analyze/dataset
    pending,            \* that request awaits its handler
    response,           \* the outcome of the last request handled
    steps,              \* the calls generate made for it, in order
    earlier,            \* an invocation seen before: <<request, response>>
    call,               \* the last direct call of a service method
    result              \* what that call returned

vars == <<datacard_generator, build, request, pending, response, steps, earlier,
          call, result>>

-----------------------------------------------------------------------------
(* Small arithmetic *)

Abs(x) == IF x < 0 THEN -x ELSE x

Sgn(x) == IF x < 0 THEN -1 ELSE IF x > 0 THEN 1 ELSE 0

Min2(a, b) == IF a <= b THEN a ELSE b

Max2(a, b) == IF a >= b THEN a ELSE b

\* floor(n / d) for d > 0, also for negative n
FloorDiv(n, d) == n \div d

\* the one element of a set of one element: Only({e : x \in {v}}) is e with
\* x the value of v, evaluated once as an assignment of the code is
Only(S) == CHOOSE x \in S : TRUE

\* the sum of s[lo..hi], by halves
RECURSIVE SumRange(_, _, _)
SumRange(s, lo, hi) ==
    IF lo > hi THEN 0
    ELSE IF lo = hi THEN s[lo]
    ELSE Only({ SumRange(s, lo, mid) + SumRange(s, mid + 1, hi) : mid \in {(lo + hi) \div 2} })

\* the sum of the numbers of a sequence
SumSeq(s) == Only({ SumRange(v, 1, Len(v)) : v \in {s \o <<>>} })

InSeq(x, s) == \E i \in 1..Len(s) : s[i] = x

Take(s, n) == SubSeq(s, 1, Min2(Max2(n, 0), Len(s)))

\* Python's round(x, ndigits) of the exact number num/den (den > 0), given as
\* the integer round(num/den): to nearest, a tie to the even neighbour
RoundHalfEven(num, den) ==
    LET q == FloorDiv(num, den)
        r == num - q * den
    IN  IF 2 * r < den THEN q
        ELSE IF 2 * r > den THEN q + 1
        ELSE IF q % 2 = 0 THEN q ELSE q + 1

-----------------------------------------------------------------------------
(* The values of a JSON-like tree: what model_dump() returns and what      *)
(* clean_nan_values walks.  Every node has the same fields.                *)

Node(kind, n, d, rt, s, keys, items) ==
    [kind |-> kind, n |-> n, d |-> d, rt |-> rt, s |-> s, keys |-> keys, items |-> items]

NoneV == Node("none", 0, 1, 1, "", <<>>, <<>>)

IntV(i) == Node("int", i, 1, 1, "", <<>>, <<>>)

Flt(n, d) == Node("float", n, d, 1, "", <<>>, <<>>)

Sqrt(n, d) == Node("float", n, d, 2, "", <<>>, <<>>)

NaN == Node("float", 0, 1, 1, "nan", <<>>, <<>>)

PosInf == Node("float", 0, 1, 1, "inf", <<>>, <<>>)

NegInf == Node("float", 0, 1, 1, "-inf", <<>>, <<>>)

Str(s) == Node("str", 0, 1, 1, s, <<>>, <<>>)

List(items) == Node("list", 0, 1, 1, "", <<>>, items)

Dict(keys, items) == Node("dict", 0, 1, 1, "", keys, items)

EmptyDict == Dict(<<>>, <<>>)

\* math.isnan(x) or math.isinf(x)
IsNonFinite(x) == x.kind = "float" /\ x.s \in {"nan", "inf", "-inf"}

IsNaN(x) == x.kind = "float" /\ x.s = "nan"

IsNumber(x) == x.kind = "int" \/ (x.kind = "float" /\ x.s = "")

HasKey(dict, key) == InSeq(key, dict.keys)

\* dict[key]
Get(dict, key) ==
    Only({ d.items[CHOOSE i \in 1..Len(d.keys) : d.keys[i] = key] : d \in {dict} })

\* dict.get(key, default)
GetOr(dict, key, default) ==
    Only({ IF HasKey(d, key) THEN Get(d, key) ELSE default : d \in {dict} })

\* dict[key] = value: a new key goes last, an old key keeps its place
Put(dict, key, value) ==
    Only({ IF HasKey(d, key)
           THEN Dict(d.keys,
                     [i \in 1..Len(d.keys) |-> IF d.keys[i] = key THEN v ELSE d.items[i]]
                         \o <<>>)
           ELSE Dict(Append(d.keys, key), Append(d.items, v)) :
           d \in {dict}, v \in {value} })

\* a < b, a <= b for finite rational floats and ints (rt = 1, d > 0)
RLt(a, b) == a.n * b.d < b.n * a.d

RLeq(a, b) == a.n * b.d <= b.n * a.d

REq(a, b) == a.n * b.d = b.n * a.d

-----------------------------------------------------------------------------
(* Outcomes of a call: a value, or an exception of a type with a message   *)

Ok(v) == [exc |-> "", msg |-> "", val |-> v]

Raise(type, msg) == [exc |-> type, msg |-> msg, val |-> NoneV]

Raised(r) == r.exc # ""

-----------------------------------------------------------------------------
(* The request's data.  A cell is a JSON scalar: a number, a string or     *)
(* null.  A record maps the keys it has to cells; its keys are written in  *)
(* the order of KeyOrder.                                                  *)

NumCell(n) == [t |-> "num", n |-> n, s |-> ""]

StrCell(s) == [t |-> "str", n |-> 0, s |-> s]

NA == [t |-> "na", n |-> 0, s |-> ""]

KeyOrder == <<"amount", "value", "score", "_id", "notional", "amount_", "id">>

KeysOf(rec) == SelectSeq(KeyOrder, LAMBDA k : k \in DOMAIN rec)

\* the keys of the records in the order of their first appearance
\* the first record that holds the key k
FirstWith(data, k) ==
    CHOOSE i \in 1..Len(data) :
        /\ k \in DOMAIN data[i]
        /\ \A j \in 1..(i - 1) : k \notin DOMAIN data[j]

\* the place of a key in KeyOrder
KeyPlace(k) == CHOOSE i \in 1..Len(KeyOrder) : KeyOrder[i] = k

ColumnsOf(data, seen) ==
    Only({ seen \o [r \in 1..Cardinality(DOMAIN first) |->
                      CHOOSE k \in DOMAIN first :
                          Cardinality({j \in DOMAIN first :
                                          \/ first[j] < first[k]
                                          \/ first[j] = first[k] /\ KeyPlace(j) < KeyPlace(k)})
                              = r - 1] :
           first \in {[k \in ({KeyOrder[i] : i \in 1..Len(KeyOrder)}
                                 \cap UNION {DOMAIN data[i] : i \in 1..Len(data)})
                                \ {seen[i] : i \in 1..Len(seen)}
                          |-> FirstWith(data, k)] @@ <<>>} })

\* the dtype pandas gives a column of JSON scalars
ColumnDtype(cells) ==
    IF \E i \in 1..Len(cells) : cells[i].t = "str" THEN "object"
    ELSE IF \A i \in 1..Len(cells) : cells[i].t = "na" THEN "object"
    ELSE IF \E i \in 1..Len(cells) : cells[i].t = "na" THEN "float64"
    ELSE "int64"

\* a Series: the cells, the index label of each (its position in the
\* dataset, from 0) and the dtype
Series(cells, index, dtype) ==
    [cells |-> cells \o <<>>, index |-> index \o <<>>, dtype |-> dtype]

\* the column c of the records
ColumnOf(data, c) ==
    Only({ Series(cells, [i \in 1..Len(data) |-> i - 1], ColumnDtype(cells)) :
           cells \in {[i \in 1..Len(data) |->
                          IF c \in DOMAIN data[i] THEN data[i][c] ELSE NA] \o <<>>} })

\* pd.DataFrame(request.data): an absent key is a missing value
DataFrame(data) ==
    Only({ [columns |-> columns,
            rows    |-> Len(data),
            col     |-> [c \in {columns[j] : j \in 1..Len(columns)} |->
                            ColumnOf(data, c)] @@ <<>>] :
           columns \in {ColumnsOf(data, <<>>)} })

\* df.empty: no rows or no columns
df_empty(df) == df.rows = 0 \/ df.columns = <<>>

\* field in df.columns
InColumns(df, field) == InSeq(field, df.columns)

\* series.dropna(): the labels of the kept cells stay
dropna(series) ==
    Only({ Series([j \in 1..Len(keep) |-> series.cells[keep[j]]],
                  [j \in 1..Len(keep) |-> series.index[keep[j]]],
                  series.dtype) :
           keep \in {SelectSeq([i \in 1..Len(series.cells) |-> i],
                               LAMBDA i : series.cells[i].t # "na")} })

\* series.head(n)
head(series, n) ==
    LET k == IF n >= 0 THEN Min2(n, Len(series.cells))
             ELSE Max2(Len(series.cells) + n, 0)
    IN  Series(SubSeq(series.cells, 1, k), SubSeq(series.index, 1, k), series.dtype)

\* pd.api.types.is_numeric_dtype(dtype)
is_numeric_dtype(dtype) == dtype \in {"int64", "float64"}

\* pd.api.types.is_datetime64_any_dtype(series)
is_datetime64_any_dtype(series) == series.dtype = "datetime64"

\* the numbers of a numeric series without missing values
Numbers(series) == [i \in 1..Len(series.cells) |-> series.cells[i].n] \o <<>>

\* str(value) of a cell of a series: pandas holds the numbers of a column with
\* missing values as floats
StrOfCell(c, dtype) ==
    IF c.t = "str" THEN c.s
    ELSE IF dtype = "float64" THEN ToString(c.n) \o ".0"
    ELSE ToString(c.n)

startswith(s, prefix) ==
    Len(s) >= Len(prefix) /\ SubSeq(s, 1, Len(prefix)) = prefix

-----------------------------------------------------------------------------
(* Timestamps: the day number since 1970-01-01, the second of the day and  *)
(* the nanosecond of the second.  NaT is a value of its own.               *)

Timestamp(day, sec, ns) == [nat |-> FALSE, day |-> day, sec |-> sec, ns |-> ns]

NaT == [nat |-> TRUE, day |-> 0, sec |-> 0, ns |-> 0]

SecondsPerDay == 86400

NanosPerSecond == 1000000000

DigitOf(ch) ==
    CASE ch = "0" -> 0 [] ch = "1" -> 1 [] ch = "2" -> 2 [] ch = "3" -> 3
      [] ch = "4" -> 4 [] ch = "5" -> 5 [] ch = "6" -> 6 [] ch = "7" -> 7
      [] ch = "8" -> 8 [] ch = "9" -> 9 [] OTHER -> -1

IsDigits(s) == \A i \in 1..Len(s) : DigitOf(SubSeq(s, i, i)) >= 0

RECURSIVE DigitsValue(_)
DigitsValue(s) ==
    IF Len(s) = 0 THEN 0
    ELSE 10 * DigitsValue(SubSeq(s, 1, Len(s) - 1)) + DigitOf(SubSeq(s, Len(s), Len(s)))

IsLeap(y) == (y % 4 = 0 /\ y % 100 # 0) \/ y % 400 = 0

DaysInMonth(y, m) ==
    IF m = 2 THEN (IF IsLeap(y) THEN 29 ELSE 28)
    ELSE IF m \in {4, 6, 9, 11} THEN 30 ELSE 31

\* the day number of the civil date y-m-d
DaysFromCivil(y, m, d) ==
    LET yy  == IF m <= 2 THEN y - 1 ELSE y
        era == FloorDiv(yy, 400)
        yoe == yy - era * 400
        mp  == (m + 9) % 12
        doy == (153 * mp + 2) \div 5 + d - 1
        doe == yoe * 365 + yoe \div 4 - yoe \div 100 + doy
    IN  era * 146097 + doe - 719468

\* the civil date <<y, m, d>> of a day number
CivilFromDays(z0) ==
    LET z   == z0 + 719468
        era == FloorDiv(z, 146097)
        doe == z - era * 146097
        yoe == (doe - doe \div 1460 + doe \div 36524 - doe \div 146096) \div 365
        doy == doe - (365 * yoe + yoe \div 4 - yoe \div 100)
        mp  == (5 * doy + 2) \div 153
        d   == doy - (153 * mp + 2) \div 5 + 1
        m   == IF mp < 10 THEN mp + 3 ELSE mp - 9
        y   == yoe + era * 400 + (IF m <= 2 THEN 1 ELSE 0)
    IN  <<y, m, d>>

\* the text is YYYY-MM-DD, or YYYY-MM-DDTHH:MM:SS, and names a real date and
\* time; no other text of the model's inputs parses as a date
IsDateText(s) ==
    /\ Len(s) \in {10, 19}
    /\ IsDigits(SubSeq(s, 1, 4)) /\ SubSeq(s, 5, 5) = "-"
    /\ IsDigits(SubSeq(s, 6, 7)) /\ SubSeq(s, 8, 8) = "-"
    /\ IsDigits(SubSeq(s, 9, 10))
    /\ DigitsValue(SubSeq(s, 6, 7)) \in 1..12
    /\ DigitsValue(SubSeq(s, 9, 10)) >= 1
    /\ DigitsValue(SubSeq(s, 9, 10))
          <= DaysInMonth(DigitsValue(SubSeq(s, 1, 4)), DigitsValue(SubSeq(s, 6, 7)))
    /\ Len(s) = 19 =>
          /\ SubSeq(s, 11, 11) = "T"
          /\ IsDigits(SubSeq(s, 12, 13)) /\ SubSeq(s, 14, 14) = ":"
          /\ IsDigits(SubSeq(s, 15, 16)) /\ SubSeq(s, 17, 17) = ":"
          /\ IsDigits(SubSeq(s, 18, 19))
          /\ DigitsValue(SubSeq(s, 12, 13)) <= 23
          /\ DigitsValue(SubSeq(s, 15, 16)) <= 59
          /\ DigitsValue(SubSeq(s, 18, 19)) <= 59

ParseDateText(s) ==
    Timestamp(DaysFromCivil(DigitsValue(SubSeq(s, 1, 4)),
                            DigitsValue(SubSeq(s, 6, 7)),
                            DigitsValue(SubSeq(s, 9, 10))),
              IF Len(s) = 19
              THEN 3600 * DigitsValue(SubSeq(s, 12, 13))
                   + 60 * DigitsValue(SubSeq(s, 15, 16))
                   + DigitsValue(SubSeq(s, 18, 19))
              ELSE 0,
              0)

\* a cell parses as a date: a number does (nanoseconds since the epoch), a
\* string does when it is a date text
CellParses(c) == c.t = "num" \/ (c.t = "str" /\ IsDateText(c.s))

\* the timestamp of a cell, NaT for a cell that does not parse; the numbers of
\* the model are less than a second of nanoseconds
CellTimestamp(c) ==
    IF c.t = "num"
    THEN (IF c.n >= 0 THEN Timestamp(0, 0, c.n)
          ELSE Timestamp(-1, SecondsPerDay - 1, NanosPerSecond + c.n))
    ELSE IF c.t = "str" /\ IsDateText(c.s) THEN ParseDateText(c.s)
    ELSE NaT

\* pd.to_datetime(series, errors="coerce").dropna(): the timestamps that
\* parse, each with its index label
to_datetime_coerce_dropna(series) ==
    LET keep == SelectSeq([i \in 1..Len(series.cells) |-> i],
                          LAMBDA i : CellParses(series.cells[i]))
    IN  [ts    |-> [j \in 1..Len(keep) |-> CellTimestamp(series.cells[keep[j]])],
         index |-> [j \in 1..Len(keep) |-> series.index[keep[j]]]]

TsLt(a, b) ==
    \/ a.day < b.day
    \/ a.day = b.day /\ a.sec < b.sec
    \/ a.day = b.day /\ a.sec = b.sec /\ a.ns < b.ns

TsLeq(a, b) == ~TsLt(b, a)

Pad(n, width) ==
    LET t == ToString(n)
    IN  IF Len(t) >= width THEN t
        ELSE SubSeq("000000000", 1, width - Len(t)) \o t

\* str(date): YYYY-MM-DD
DateText(day) ==
    LET c == CivilFromDays(day)
    IN  Pad(c[1], 4) \o "-" \o Pad(c[2], 2) \o "-" \o Pad(c[3], 2)

\* Timestamp.isoformat(): the fraction is written only when it is not zero
isoformat(t) ==
    DateText(t.day) \o "T" \o Pad(t.sec \div 3600, 2) \o ":"
        \o Pad((t.sec % 3600) \div 60, 2) \o ":" \o Pad(t.sec % 60, 2)
        \o (IF t.ns = 0 THEN ""
            ELSE IF t.ns % 1000 = 0 THEN "." \o Pad(t.ns \div 1000, 6)
            ELSE "." \o Pad(t.ns, 9))

\* b - a as a timedelta <<days, seconds, nanoseconds>>, for a <= b
TsDiff(a, b) ==
    LET ns0  == b.ns - a.ns
        sec0 == b.sec - a.sec - (IF ns0 < 0 THEN 1 ELSE 0)
        day0 == b.day - a.day - (IF sec0 < 0 THEN 1 ELSE 0)
    IN  <<day0,
          IF sec0 < 0 THEN sec0 + SecondsPerDay ELSE sec0,
          IF ns0 < 0 THEN ns0 + NanosPerSecond ELSE ns0>>

\* delta > timedelta(days=1)
MoreThanOneDay(delta) == delta[1] > 1 \/ (delta[1] = 1 /\ (delta[2] > 0 \/ delta[3] > 0))

-----------------------------------------------------------------------------
(* SchemaInferenceService *)

SchemaOf(numeric, categorical, temporal) ==
    [numeric |-> numeric, categorical |-> categorical, temporal |-> temporal]

SampleSize == 10

\* a check that parses every non-missing value, not a sample
_is_temporal_of_all_values(series) ==
    IF is_datetime64_any_dtype(series) THEN TRUE
    ELSE IF series.dtype = "object"
    THEN LET sample == dropna(series)
         IN  IF Len(sample.cells) = 0 THEN FALSE
             ELSE \A i \in 1..Len(sample.cells) : CellParses(sample.cells[i])
    ELSE FALSE

\* SchemaInferenceService._is_temporal
_is_temporal(series) ==
    IF is_datetime64_any_dtype(series) THEN TRUE
    ELSE IF series.dtype = "object"
    THEN LET sample == head(dropna(series), SampleSize)
         IN  IF Len(sample.cells) = 0 THEN FALSE
             ELSE \A i \in 1..Len(sample.cells) : CellParses(sample.cells[i])
    ELSE FALSE

\* SchemaInferenceService.infer_schema: the loop over df.columns, from
\* column number j on
RECURSIVE infer_schema_from(_, _, _)
infer_schema_from(df, j, acc) ==
    IF j > Len(df.columns) THEN acc
    ELSE LET colname == df.columns[j]
         IN  infer_schema_from(df, j + 1,
                 IF startswith(colname, "_") THEN acc
                 ELSE IF _is_temporal(df.col[colname])
                 THEN [acc EXCEPT !.temporal = Append(@, colname)]
                 ELSE IF is_numeric_dtype(df.col[colname].dtype)
                 THEN [acc EXCEPT !.numeric = Append(@, colname)]
                 ELSE [acc EXCEPT !.categorical = Append(@, colname)])

infer_schema(df) == infer_schema_from(df, 1, SchemaOf(<<>>, <<>>, <<>>))

-----------------------------------------------------------------------------
(* StatisticalAnalyzer *)

\* the numbers in ascending order: the runs of equal numbers, the run of the
\* least number first
RECURSIVE RunsOf(_, _)
RunsOf(s, vals) ==
    IF vals = {} THEN <<>>
    ELSE LET v == CHOOSE w \in vals : \A u \in vals : w <= u
         IN  [i \in 1..Len(SelectSeq(s, LAMBDA x : x = v)) |-> v] \o RunsOf(s, vals \ {v})

SortAsc(s) == RunsOf(s, {s[i] : i \in 1..Len(s)})

\* an interpolation that steps away from the next order statistic
Quantile4_backwards(xs, k) ==
    LET h  == k * (Len(xs) - 1)
        lo == h \div 4
        fr == h % 4
        a  == xs[lo + 1]
        b  == xs[Min2(lo + 2, Len(xs))]
    IN  4 * a - fr * (b - a)

\* 4 * series.quantile(k / 4) of the sorted numbers xs: linear interpolation
\* between the order statistics around position (k / 4) * (N - 1)
Quantile4(xs, k) ==
    LET h  == k * (Len(xs) - 1)
        lo == h \div 4
        fr == h % 4
        a  == xs[lo + 1]
        b  == xs[Min2(lo + 2, Len(xs))]
    IN  4 * a + fr * (b - a)

quantile(xs, k) == Flt(Quantile4(xs, k), 4)

\* N times the deviation of each number from the mean
Devs(xs) ==
    Only({ [i \in 1..Len(xs) |-> Len(xs) * xs[i] - total] \o <<>> : total \in {SumSeq(xs)} })

\* the sum of the squares of those deviations
DevPow(xs, p) ==
    Only({ SumSeq([i \in 1..Len(xs) |-> devs[i] * devs[i]]) : devs \in {Devs(xs)} })

RECURSIVE Gcd(_, _)
Gcd(a, b) == IF b = 0 THEN a ELSE Gcd(b, a % b)

RECURSIVE GcdOf(_)
GcdOf(S) ==
    IF S = {} THEN 0
    ELSE LET x == CHOOSE y \in S : TRUE IN Gcd(x, GcdOf(S \ {x}))

\* the deviations divided by their greatest common divisor: the standardized
\* moments are ratios that a common factor of the deviations leaves alone
ScaledDevs(xs) ==
    Only({ Only({ IF g = 0 THEN devs ELSE [i \in 1..Len(devs) |-> devs[i] \div g] \o <<>> :
                  g \in {GcdOf({Abs(devs[i]) : i \in 1..Len(devs)})} }) :
           devs \in {Devs(xs)} })

\* the sum of the p-th powers of the scaled deviations, p in 2..4
ScaledPow(xs, p) ==
    Only({ SumSeq([i \in 1..Len(xs) |->
                      IF p = 2 THEN devs[i] * devs[i]
                      ELSE IF p = 3 THEN devs[i] * devs[i] * devs[i]
                      ELSE devs[i] * devs[i] * devs[i] * devs[i]]) :
           devs \in {ScaledDevs(xs)} })

\* series.median()
median(xs) ==
    Only({ IF Len(s) % 2 = 1 THEN Flt(s[(Len(s) + 1) \div 2], 1)
           ELSE Flt(s[Len(s) \div 2] + s[Len(s) \div 2 + 1], 2) :
           s \in {SortAsc(xs)} })

\* the standard deviation of the population, the denominator N
std_of_population(xs) ==
    Sqrt(DevPow(xs, 2), Len(xs) * Len(xs) * Len(xs))

\* series.std(): the sample standard deviation, NaN for a single value
std(xs) ==
    IF Len(xs) < 2 THEN NaN
    ELSE Sqrt(DevPow(xs, 2), Len(xs) * Len(xs) * (Len(xs) - 1))

\* scipy_stats.skew(series): m3 / m2^1.5 of the population moments; of
\* constant data NaN, or 0.0 with an older scipy
skew(xs, scipy) ==
    Only({ IF M2 = 0 THEN (IF scipy = "nan_for_constant" THEN NaN ELSE Flt(0, 1))
           ELSE IF M3 = 0 THEN Sqrt(0, 1)
           ELSE Sqrt(Sgn(M3) * M3 * M3 * Len(xs), M2 * M2 * M2) :
           M2 \in {ScaledPow(xs, 2)}, M3 \in {ScaledPow(xs, 3)} })

\* scipy_stats.kurtosis(series): m4 / m2^2 - 3; of constant data NaN, or -3.0
\* with an older scipy
kurtosis(xs, scipy) ==
    Only({ IF M2 = 0 THEN (IF scipy = "nan_for_constant" THEN NaN ELSE Flt(-3, 1))
           ELSE Flt(Len(xs) * M4 - 3 * M2 * M2, M2 * M2) :
           M2 \in {ScaledPow(xs, 2)}, M4 \in {ScaledPow(xs, 4)} })

OutlierCap == 100

FloatList(xs) == Only({ List([i \in 1..Len(v) |-> Flt(v[i], 1)] \o <<>>) : v \in {xs} })

IntList(xs) == Only({ List([i \in 1..Len(v) |-> IntV(v[i])] \o <<>>) : v \in {xs} })

\* a score over the sample standard deviation, the denominator N - 1
ZScoreAbove_sample_std(n, dev, M2, threshold) ==
    /\ M2 # 0
    /\ \/ threshold.n < 0
       \/ (n - 1) * dev * dev * threshold.d * threshold.d > threshold.n * threshold.n * M2

\* the deviation over the variance, not over the standard deviation
ZScoreAbove_over_variance(n, dev, M2, threshold) ==
    /\ M2 # 0
    /\ \/ threshold.n < 0
       \/ n * n * Abs(dev) * threshold.d > threshold.n * M2

\* z_scores > threshold for a number whose deviation (times N) is dev, M2
\* the sum of the squares of all deviations: |x - mean| over the population
\* standard deviation; NaN (constant data) is above nothing.  A score that
\* is exactly the threshold is computed as the threshold or as the next
\* float past it, by build.rounding; the score 0 is computed exactly
ZScoreAbove(n, dev, M2, threshold) ==
    /\ M2 # 0
    /\ \/ threshold.n < 0
       \/ n * dev * dev * threshold.d * threshold.d > threshold.n * threshold.n * M2
       \/ /\ build.rounding = "past_the_threshold" /\ dev # 0
          /\ n * dev * dev * threshold.d * threshold.d = threshold.n * threshold.n * M2

\* z_scores.max()
MaxZScore(n, devs, M2) ==
    IF M2 = 0 THEN NaN
    ELSE Only({ Only({ Sqrt(n * far * far, M2) :
                       far \in {CHOOSE a \in away : \A b \in away : b <= a} }) :
                away \in {{Abs(devs[i]) : i \in 1..n}} })

\* a report of the positions among the non-missing values, not the labels
OutlierReport_clean_positions(series, flagged, method, threshold) ==
    Only({ Dict(<<"method", "threshold", "count", "indices", "values">>,
                <<Str(method), threshold, IntV(Len(flagged)),
                  IntList([j \in 1..Len(first) |-> first[j] - 1]),
                  FloatList([j \in 1..Len(first) |-> series.cells[first[j]].n])>>) :
           first \in {Take(flagged, OutlierCap)} })

\* the report of the flagged positions: series.index[outlier_mask] and
\* series[outlier_mask], the lists cut at 100
OutlierReport(series, flagged, method, threshold) ==
    Only({ Dict(<<"method", "threshold", "count", "indices", "values">>,
                <<Str(method), threshold, IntV(Len(flagged)),
                  IntList([j \in 1..Len(first) |-> series.index[first[j]]]),
                  FloatList([j \in 1..Len(first) |-> series.cells[first[j]].n])>>) :
           first \in {Take(flagged, OutlierCap)} })

\* the positions zscore flags
ZScoreFlagged(xs, devs, M2, threshold) ==
    SelectSeq([i \in 1..Len(xs) |-> i],
              LAMBDA i : ZScoreAbove(Len(xs), devs[i], M2, threshold))

\* the positions of the values on the bounds flagged too
IqrFlagged_on_the_bounds(xs, threshold, lower, upper) ==
    SelectSeq([i \in 1..Len(xs) |-> i],
              LAMBDA i : \/ 4 * threshold.d * xs[i] <= lower
                         \/ 4 * threshold.d * xs[i] >= upper)

\* the positions iqr flags: below q1 - threshold*iqr or above q3 + threshold*iqr,
\* lower and upper being 4 * threshold.d times those bounds
IqrFlagged(xs, threshold, lower, upper) ==
    SelectSeq([i \in 1..Len(xs) |-> i],
              LAMBDA i : \/ 4 * threshold.d * xs[i] < lower
                         \/ 4 * threshold.d * xs[i] > upper)

\* a method that is neither zscore nor iqr taken as the default, zscore
_detect_outliers_default_for_unknown(series, method, threshold) ==
    IF method # "iqr"
    THEN Only({ Put(OutlierReport(series, ZScoreFlagged(xs, devs, M2, threshold),
                                  "zscore", threshold),
                    "max_zscore", MaxZScore(Len(xs), devs, M2)) :
                xs \in {Numbers(series)}, devs \in {Devs(Numbers(series))},
                M2 \in {DevPow(Numbers(series), 2)} })
    ELSE Only({ Put(OutlierReport(series,
                                  IqrFlagged(xs, threshold,
                                             q1 * threshold.d - threshold.n * (q3 - q1),
                                             q3 * threshold.d + threshold.n * (q3 - q1)),
                                  "iqr", threshold),
                    "bounds",
                    Dict(<<"lower", "upper">>,
                         <<Flt(q1 * threshold.d - threshold.n * (q3 - q1), 4 * threshold.d),
                           Flt(q3 * threshold.d + threshold.n * (q3 - q1), 4 * threshold.d)>>)) :
                xs \in {Numbers(series)},
                q1 \in {Quantile4(SortAsc(Numbers(series)), 1)},
                q3 \in {Quantile4(SortAsc(Numbers(series)), 3)} })

\* StatisticalAnalyzer._detect_outliers
_detect_outliers(series, method, threshold) ==
    IF method = "zscore"
    THEN Only({ Put(OutlierReport(series, ZScoreFlagged(xs, devs, M2, threshold),
                                  "zscore", threshold),
                    "max_zscore", MaxZScore(Len(xs), devs, M2)) :
                xs \in {Numbers(series)}, devs \in {Devs(Numbers(series))},
                M2 \in {DevPow(Numbers(series), 2)} })
    ELSE IF method = "iqr"
    THEN Only({ Put(OutlierReport(series,
                                  IqrFlagged(xs, threshold,
                                             q1 * threshold.d - threshold.n * (q3 - q1),
                                             q3 * threshold.d + threshold.n * (q3 - q1)),
                                  "iqr", threshold),
                    "bounds",
                    Dict(<<"lower", "upper">>,
                         <<Flt(q1 * threshold.d - threshold.n * (q3 - q1), 4 * threshold.d),
                           Flt(q3 * threshold.d + threshold.n * (q3 - q1), 4 * threshold.d)>>)) :
                xs \in {Numbers(series)},
                q1 \in {Quantile4(SortAsc(Numbers(series)), 1)},
                q3 \in {Quantile4(SortAsc(Numbers(series)), 3)} })
    ELSE Dict(<<"method", "count">>, <<Str(method), IntV(0)>>)

NumericStatsKeys ==
    <<"count", "mean", "median", "std", "min", "max", "q25", "q50", "q75",
      "skewness", "kurtosis", "outliers">>

\* the sentinel without its outliers argument: the field keeps its default
_empty_numeric_stats_default_outliers ==
    Dict(NumericStatsKeys,
         <<IntV(0), Flt(0, 1), Flt(0, 1), Flt(0, 1), Flt(0, 1), Flt(0, 1),
           Flt(0, 1), Flt(0, 1), Flt(0, 1), NoneV, NoneV, EmptyDict>>)

\* StatisticalAnalyzer._empty_numeric_stats
_empty_numeric_stats ==
    Dict(NumericStatsKeys,
         <<IntV(0), Flt(0, 1), Flt(0, 1), Flt(0, 1), Flt(0, 1), Flt(0, 1),
           Flt(0, 1), Flt(0, 1), Flt(0, 1), NoneV, NoneV,
           Dict(<<"count">>, <<IntV(0)>>)>>)

\* StatisticalAnalyzer.analyze_numeric_field; a column of strings has no mean
analyze_numeric_field(series, outlier_method, outlier_threshold, scipy) ==
    Only({ IF Len(clean_data.cells) = 0 THEN Ok(_empty_numeric_stats)
           ELSE IF \E i \in 1..Len(clean_data.cells) : clean_data.cells[i].t = "str"
           THEN Raise("TypeError", "Could not convert string to numeric")
           ELSE Only({ Ok(Dict(NumericStatsKeys,
                               <<IntV(Len(xs)),
                                 Flt(SumSeq(xs), Len(xs)),
                                 median(xs),
                                 std(xs),
                                 Flt(ascending[1], 1),
                                 Flt(ascending[Len(ascending)], 1),
                                 quantile(ascending, 1),
                                 quantile(ascending, 2),
                                 quantile(ascending, 3),
                                 skew(xs, scipy),
                                 kurtosis(xs, scipy),
                                 _detect_outliers(clean_data, outlier_method,
                                                  outlier_threshold)>>)) :
                       xs \in {Numbers(clean_data)},
                       ascending \in {SortAsc(Numbers(clean_data))} }) :
           clean_data \in {dropna(series)} })

-----------------------------------------------------------------------------
(* CategoricalAnalyzer *)

RareCap == 50

\* the distinct cells of a series in the order of their first appearance
Distinct(cells, seen) ==
    Only({ seen \o [k \in 1..Len(first) |-> cells[first[k]]] :
           first \in {SelectSeq([i \in 1..Len(cells) |-> i],
                                LAMBDA i : /\ ~InSeq(cells[i], seen)
                                           /\ \A j \in 1..(i - 1) : cells[j] # cells[i])} })

CountOf(cells, c) == Len(SelectSeq(cells, LAMBDA x : x = c))

\* the entries <<cell, count>> put in descending order of count, entries of
\* one count staying in the order they had
SortByCount(s) ==
    Only({ [r \in 1..Len(s) |-> s[CHOOSE i \in 1..Len(s) : place[i] = r]] \o <<>> :
           place \in {[i \in 1..Len(s) |->
                          Cardinality({j \in 1..Len(s) :
                                          \/ s[j][2] > s[i][2]
                                          \/ s[j][2] = s[i][2] /\ j < i}) + 1] \o <<>>} })

\* series.value_counts(): <<cell, count>> of every distinct value, the most
\* frequent first
value_counts(series) ==
    Only({ SortByCount([i \in 1..Len(values) |->
                           <<values[i], CountOf(series.cells, values[i])>>] \o <<>>) :
           values \in {Distinct(series.cells, <<>>)} })

\* value_counts.head(top_n)
HeadCounts(counts, n) ==
    IF n >= 0 THEN SubSeq(counts, 1, Min2(n, Len(counts)))
    ELSE SubSeq(counts, 1, Max2(Len(counts) + n, 0))

\* an entry whose percent is rounded up to the next hundredth
TopEntry_percent_rounded_up(e, total_count, dtype) ==
    Dict(<<"value", "count", "percent">>,
         <<Str(StrOfCell(e[1], dtype)), IntV(e[2]),
           Flt((e[2] * 10000 + total_count - 1) \div total_count, 100)>>)

\* one entry of top_n: percent is round(count / total_count * 100, 2)
TopEntry(e, total_count, dtype) ==
    Dict(<<"value", "count", "percent">>,
         <<Str(StrOfCell(e[1], dtype)), IntV(e[2]),
           Flt(RoundHalfEven(e[2] * 10000, total_count), 100)>>)

\* the squared proportion of the most frequent value only
hhi_of_largest(counts, total_count) ==
    Flt(counts[1][2] * counts[1][2], total_count * total_count)

\* (proportions**2).sum()
hhi(counts, total_count) ==
    Flt(SumSeq([i \in 1..Len(counts) |-> counts[i][2] * counts[i][2]]),
        total_count * total_count)

\* the entries whose count is at most 1% of the total
rare_categories_up_to_one_percent(counts, total_count) ==
    SelectSeq(counts, LAMBDA e : 100 * e[2] <= total_count)

\* the entries with count < rare_threshold, rare_threshold = total_count * 0.01,
\* in the order of value_counts
rare_categories(counts, total_count) ==
    SelectSeq(counts, LAMBDA e : 100 * e[2] < total_count)

\* CategoricalAnalyzer._empty_categorical_stats
_empty_categorical_stats ==
    Dict(<<"unique_count", "top_n", "concentration_risk", "rare_categories">>,
         <<IntV(0), List(<<>>), Flt(0, 1), List(<<>>)>>)

\* CategoricalAnalyzer.analyze_categorical_field
analyze_categorical_field(series, top_n) ==
    Only({ IF Len(clean_data.cells) = 0 THEN _empty_categorical_stats
           ELSE Only({ Dict(<<"unique_count", "top_n", "concentration_risk", "rare_categories">>,
                            <<IntV(Len(counts)),
                              List([i \in 1..Len(top) |->
                                       TopEntry(top[i], Len(clean_data.cells), series.dtype)]),
                              hhi(counts, Len(clean_data.cells)),
                              List([i \in 1..Len(rare) |->
                                       Str(StrOfCell(rare[i][1], series.dtype))])>>) :
                       top \in {HeadCounts(counts, top_n)},
                       rare \in {Take(rare_categories(counts, Len(clean_data.cells)),
                                      RareCap)} }) :
           clean_data \in {dropna(series)}, counts \in {value_counts(dropna(series))} })

-----------------------------------------------------------------------------
(* TemporalAnalyzer *)

\* series.sort_values() of timestamps: each goes to the place that the number
\* of the timestamps before it gives, equal ones in their order
SortTs(s) ==
    Only({ [r \in 1..Len(s) |-> s[CHOOSE i \in 1..Len(s) : before[i] = r - 1]] \o <<>> :
           before \in {[i \in 1..Len(s) |->
                           Cardinality({j \in 1..Len(s) :
                                           \/ TsLt(s[j], s[i])
                                           \/ s[j] = s[i] /\ j < i})] \o <<>>} })

\* the sum of timedeltas, as <<days, seconds, nanoseconds>>
RECURSIVE SumDeltas(_)
SumDeltas(ds) ==
    IF ds = <<>> THEN <<0, 0, 0>>
    ELSE LET r  == SumDeltas(Tail(ds))
             ns == Head(ds)[3] + r[3]
             s  == Head(ds)[2] + r[2] + ns \div NanosPerSecond
         IN  <<Head(ds)[1] + r[1] + s \div SecondsPerDay,
               s % SecondsPerDay, ns % NanosPerSecond>>

DeltaLt(a, b) ==
    \/ a[1] < b[1]
    \/ a[1] = b[1] /\ a[2] < b[2]
    \/ a[1] = b[1] /\ a[2] = b[2] /\ a[3] < b[3]

\* TemporalAnalyzer._analyze_gaps; gaps.mean().days is the whole days of the
\* mean gap
_analyze_gaps(sorted_dates) ==
    LET diffs == [i \in 1..(Len(sorted_dates) - 1) |->
                     TsDiff(sorted_dates[i], sorted_dates[i + 1])]
        gaps == SelectSeq(diffs, MoreThanOneDay)
        max_gap == CHOOSE g \in {gaps[i] : i \in 1..Len(gaps)} :
                       \A i \in 1..Len(gaps) : ~DeltaLt(g, gaps[i])
        total == SumDeltas(gaps)
        none == Dict(<<"count", "max_gap_days">>, <<IntV(0), IntV(0)>>)
    IN  IF Len(sorted_dates) < 2 THEN none
        ELSE IF Len(gaps) = 0 THEN none
        ELSE Dict(<<"count", "max_gap_days", "avg_gap_days">>,
                  <<IntV(Len(gaps)), IntV(max_gap[1]),
                    IntV(total[1] \div Len(gaps))>>)

DailyCap == 100

\* the distinct numbers of xs, ascending
DistinctAsc(xs) ==
    Only({ Only({ [r \in 1..Cardinality(vals) |-> CHOOSE v \in vals : below[v] = r - 1] \o <<>> :
                  below \in {[v \in vals |-> Cardinality({w \in vals : w < v})] @@ <<>>} }) :
           vals \in {{xs[i] : i \in 1..Len(xs)}} })

\* TemporalAnalyzer._analyze_distribution
_analyze_distribution(dates) ==
    LET hours == [i \in 1..Len(dates) |-> dates[i].sec \div 3600]
        days  == [i \in 1..Len(dates) |-> dates[i].day]
        has_time == \/ \E i \in 1..Len(dates) : dates[i].sec \div 3600 # 0
                    \/ \E i \in 1..Len(dates) : (dates[i].sec % 3600) \div 60 # 0
        hkeys == DistinctAsc(hours)
        dkeys == Take(DistinctAsc(days), DailyCap)
    IN  IF has_time
        THEN Dict(<<"type", "data">>,
                  <<Str("hourly"),
                    Dict([i \in 1..Len(hkeys) |-> ToString(hkeys[i])],
                         [i \in 1..Len(hkeys) |-> IntV(CountOf(hours, hkeys[i]))])>>)
        ELSE Dict(<<"type", "data">>,
                  <<Str("daily"),
                    Dict([i \in 1..Len(dkeys) |-> DateText(dkeys[i])],
                         [i \in 1..Len(dkeys) |-> IntV(CountOf(days, dkeys[i]))])>>)

\* TemporalAnalyzer._empty_temporal_stats
_empty_temporal_stats ==
    Dict(<<"range", "gaps", "distribution">>,
         <<Dict(<<"start", "end", "days">>, <<NoneV, NoneV, IntV(0)>>), NoneV, NoneV>>)

\* TemporalAnalyzer.analyze_temporal_field
analyze_temporal_field(series) ==
    LET clean_data == to_datetime_coerce_dropna(series).ts
        sorted_dates == SortTs(clean_data)
        start_date == sorted_dates[1]
        end_date == sorted_dates[Len(sorted_dates)]
    IN  IF Len(clean_data) = 0 THEN _empty_temporal_stats
        ELSE Dict(<<"range", "gaps", "distribution">>,
                  <<Dict(<<"start", "end", "days">>,
                         <<Str(isoformat(start_date)), Str(isoformat(end_date)),
                           IntV(TsDiff(start_date, end_date)[1])>>),
                    _analyze_gaps(sorted_dates),
                    _analyze_distribution(clean_data)>>)

-----------------------------------------------------------------------------
(* StatisticalAnalyzer.compute_correlations *)

\* the pairs <<x, y>> of the rows where both columns hold a number
PairedNumbers(sa, sb) ==
    LET keep == SelectSeq([i \in 1..Len(sa.cells) |-> i],
                          LAMBDA i : sa.cells[i].t = "num" /\ sb.cells[i].t = "num")
    IN  [j \in 1..Len(keep) |-> <<sa.cells[keep[j]].n, sb.cells[keep[j]].n>>]

\* n*sum(x*y) - sum(x)*sum(y) of the pairs, for x, y the components i, j
CoMoment(pairs, i, j) ==
    Len(pairs) * SumSeq([k \in 1..Len(pairs) |-> pairs[k][i] * pairs[k][j]])
        - SumSeq([k \in 1..Len(pairs) |-> pairs[k][i]])
            * SumSeq([k \in 1..Len(pairs) |-> pairs[k][j]])

\* corr_matrix.loc[col1, col2]: Pearson's r over the rows complete for the
\* pair, NaN when a column is constant there or no row is complete
pearson_r(sa, sb) ==
    LET pairs == PairedNumbers(sa, sb)
        sxy == CoMoment(pairs, 1, 2)
        sxx == CoMoment(pairs, 1, 1)
        syy == CoMoment(pairs, 2, 2)
    IN  IF Len(pairs) = 0 \/ sxx * syy = 0 THEN NaN
        ELSE Sqrt(Sgn(sxy) * sxy * sxy, sxx * syy)

\* abs(r) >= num / 10
AbsAbove_or_on(r, num) == 100 * Abs(r.n) >= num * num * r.d

\* abs(r) > num / 10 for r = Sqrt(n, d)
AbsAbove(r, num) == 100 * Abs(r.n) > num * num * r.d

\* a label that names more than one column of corr_matrix
Repeated(cols, c) == Cardinality({k \in 1..Len(cols) : cols[k] = c}) > 1

\* one more entry of pearson, and of significant when |r| > 0.7
Correlated(acc, col1, col2, r_value) ==
    [exc         |-> "",
     pearson     |-> Put(acc.pearson, col1 \o "_" \o col2, r_value),
     significant |->
         IF AbsAbove(r_value, 7)
         THEN Append(acc.significant,
                     Dict(<<"field1", "field2", "r", "strength">>,
                          <<Str(col1), Str(col2), r_value,
                            Str(IF AbsAbove(r_value, 9) THEN "strong" ELSE "moderate")>>))
         ELSE acc.significant]

\* the double loop that keeps both triangles of the matrix
RECURSIVE correlate_from_both_triangles(_, _, _, _, _)
correlate_from_both_triangles(df, cols, i, j, acc) ==
    IF i > Len(cols) THEN acc
    ELSE IF j > Len(cols) THEN correlate_from_both_triangles(df, cols, i + 1, 1, acc)
    ELSE IF i = j THEN correlate_from_both_triangles(df, cols, i, j + 1, acc)
    ELSE Only({ correlate_from_both_triangles(df, cols, i, j + 1, next) :
                next \in {Only({ IF IsNaN(r_value) THEN acc
                                 ELSE Correlated(acc, cols[i], cols[j], r_value) :
                                 r_value \in {pearson_r(df.col[cols[i]], df.col[cols[j]])} })} })

\* the double loop over corr_matrix.columns, from the pair (i, j) on; where a
\* label names two columns corr_matrix.loc[col1, col2] is no scalar, and the
\* truth value of pd.isna of it is a ValueError
RECURSIVE correlate_from(_, _, _, _, _)
correlate_from(df, cols, i, j, acc) ==
    IF i > Len(cols) THEN acc
    ELSE IF j > Len(cols) THEN correlate_from(df, cols, i + 1, 1, acc)
    ELSE IF ~(i < j) THEN correlate_from(df, cols, i, j + 1, acc)
    ELSE IF Repeated(cols, cols[i]) \/ Repeated(cols, cols[j])
    THEN [acc EXCEPT !.exc =
              IF Repeated(cols, cols[i]) /\ Repeated(cols, cols[j])
              THEN "The truth value of a DataFrame is ambiguous"
              ELSE "The truth value of a Series is ambiguous"]
    ELSE Only({ correlate_from(df, cols, i, j + 1, next) :
                next \in {Only({ IF IsNaN(r_value) THEN acc
                                 ELSE Correlated(acc, cols[i], cols[j], r_value) :
                                 r_value \in {pearson_r(df.col[cols[i]], df.col[cols[j]])} })} })

CorrelationsOf(pearson, significant) ==
    Dict(<<"pearson", "significant">>, <<pearson, List(significant)>>)

\* StatisticalAnalyzer.compute_correlations; df[numeric_fields] raises
\* KeyError for a name that is no column
compute_correlations(df, numeric_fields) ==
    IF Len(numeric_fields) < 2 THEN Ok(CorrelationsOf(EmptyDict, <<>>))
    ELSE IF \E i \in 1..Len(numeric_fields) : ~InColumns(df, numeric_fields[i])
    THEN Raise("KeyError", "not in index")
    ELSE Only({ IF Len(numeric_cols) < 2 THEN Ok(CorrelationsOf(EmptyDict, <<>>))
                ELSE Only({ IF found.exc # "" THEN Raise("ValueError", found.exc)
                            ELSE Ok(CorrelationsOf(found.pearson, found.significant)) :
                            found \in {correlate_from(df, numeric_cols, 1, 1,
                                           [exc |-> "", pearson |-> EmptyDict,
                                            significant |-> <<>>])} }) :
                numeric_cols \in {SelectSeq(numeric_fields,
                                     LAMBDA f : is_numeric_dtype(df.col[f].dtype))} })

-----------------------------------------------------------------------------
(* DataCardGenerator._generate_summary *)

NotionalFields == <<"amount", "notional", "value">>

\* float(df[field].sum()): the sum of the numbers of a numeric column; the
\* strings of a column of strings are joined and the result is no float; a
\* missing value cannot be added to a string
float_of_sum(series) ==
    LET present == dropna(series).cells
    IN  IF \A i \in 1..Len(present) : present[i].t = "num"
        THEN Ok(Flt(SumSeq([i \in 1..Len(present) |-> present[i].n]), 1))
        ELSE IF Len(present) < Len(series.cells)
        THEN Raise("TypeError", "can only concatenate str (not int) to str")
        ELSE Raise("ValueError", "could not convert string to float")

\* the first column that is one of amount, notional, value and is in
\* schema["numeric"]; "" when there is none
NotionalField_in_column_order(df, schema) ==
    LET found == SelectSeq(df.columns,
                           LAMBDA f : InSeq(f, NotionalFields) /\ InSeq(f, schema.numeric))
    IN  IF found = <<>> THEN "" ELSE found[1]

\* the first of amount, notional, value that is a column and is in
\* schema["numeric"]; "" when there is none
NotionalField(df, schema) ==
    LET found == SelectSeq(NotionalFields,
                           LAMBDA f : InColumns(df, f) /\ InSeq(f, schema.numeric))
    IN  IF found = <<>> THEN "" ELSE found[1]

\* the earliest and the latest of the timestamps
MinTs(ts) == CHOOSE t \in {ts[i] : i \in 1..Len(ts)} : \A i \in 1..Len(ts) : TsLeq(t, ts[i])

MaxTs(ts) == CHOOSE t \in {ts[i] : i \in 1..Len(ts)} : \A i \in 1..Len(ts) : TsLeq(ts[i], t)

_generate_summary(df, schema) ==
    LET counts == Dict(<<"record_count", "field_count", "numeric_fields",
                         "categorical_fields", "temporal_fields">>,
                       <<IntV(df.rows), IntV(Len(df.columns)), IntV(Len(schema.numeric)),
                         IntV(Len(schema.categorical)), IntV(Len(schema.temporal))>>)
        field == NotionalField(df, schema)
        total == float_of_sum(df.col[field])
        with_total == IF field = "" THEN counts
                      ELSE Put(counts, "total_notional", total.val)
        dates == to_datetime_coerce_dropna(df.col[schema.temporal[1]]).ts
    IN  IF field # "" /\ Raised(total) THEN total
        ELSE IF schema.temporal # <<>> /\ InColumns(df, schema.temporal[1])
                /\ Len(dates) > 0
        THEN Ok(Put(with_total, "time_range",
                    Dict(<<"start", "end">>,
                         <<Str(isoformat(MinTs(dates))), Str(isoformat(MaxTs(dates)))>>)))
        ELSE Ok(with_total)

-----------------------------------------------------------------------------
(* DataCardGenerator._detect_anomalies *)

\* f"{x:.3f}" of the number n/d >= 0
Format3(x) ==
    LET m == RoundHalfEven(x.n * 1000, x.d)
    IN  ToString(m \div 1000) \o "." \o Pad(m % 1000, 3)

AnomalyOf(type, field, severity, description, affected_records, details) ==
    Dict(<<"type", "field", "severity", "description", "affected_records", "details">>,
         <<Str(type), Str(field), Str(severity), Str(description),
           List(affected_records), details>>)

\* an anomaly whose severity compares the outliers with 10% of the values of
\* the field, not of the records
OutlierAnomaly_of_field_values(df, field, stats) ==
    Only({ AnomalyOf("statistical_outlier", field,
                     IF 10 * outlier_count > Get(stats, "count").n THEN "high" ELSE "medium",
                     ToString(outlier_count) \o " outliers detected in " \o field
                         \o " using " \o GetOr(outliers, "method", Str("unknown")).s
                         \o " method",
                     Take(GetOr(outliers, "indices", List(<<>>)).items, OutlierCap),
                     Dict(<<"method", "threshold", "percent_of_total">>,
                          <<GetOr(outliers, "method", NoneV),
                            GetOr(outliers, "threshold", NoneV),
                            Flt(RoundHalfEven(outlier_count * 10000, df.rows), 100)>>)) :
           outliers \in {Get(stats, "outliers")},
           outlier_count \in {GetOr(Get(stats, "outliers"), "count", IntV(0)).n} })

\* the anomaly of a numeric field, when it has outliers
OutlierAnomaly(df, field, stats) ==
    Only({ AnomalyOf("statistical_outlier", field,
                     IF 10 * outlier_count > df.rows THEN "high" ELSE "medium",
                     ToString(outlier_count) \o " outliers detected in " \o field
                         \o " using " \o GetOr(outliers, "method", Str("unknown")).s
                         \o " method",
                     Take(GetOr(outliers, "indices", List(<<>>)).items, OutlierCap),
                     Dict(<<"method", "threshold", "percent_of_total">>,
                          <<GetOr(outliers, "method", NoneV),
                            GetOr(outliers, "threshold", NoneV),
                            Flt(RoundHalfEven(outlier_count * 10000, df.rows), 100)>>)) :
           outliers \in {Get(stats, "outliers")},
           outlier_count \in {GetOr(Get(stats, "outliers"), "count", IntV(0)).n} })

\* an anomaly that is high from a concentration of 0.5 on
ConcentrationAnomaly_high_from_half(field, stats) ==
    Only({ AnomalyOf("concentration_risk", field,
                     IF 2 * risk.n >= risk.d THEN "high" ELSE "medium",
                     "High concentration detected in " \o field
                         \o " (HHI: " \o Format3(risk) \o ")",
                     <<>>,
                     Dict(<<"hhi", "top_entity", "top_entity_percent">>,
                          <<risk,
                            IF top_n # <<>> THEN Get(top_n[1], "value") ELSE NoneV,
                            IF top_n # <<>> THEN Get(top_n[1], "percent") ELSE IntV(0)>>)) :
           risk \in {Get(stats, "concentration_risk")},
           top_n \in {Get(stats, "top_n").items} })

\* the anomaly of a categorical field, when it is concentrated
ConcentrationAnomaly(field, stats) ==
    Only({ AnomalyOf("concentration_risk", field,
                     IF 2 * risk.n > risk.d THEN "high" ELSE "medium",
                     "High concentration detected in " \o field
                         \o " (HHI: " \o Format3(risk) \o ")",
                     <<>>,
                     Dict(<<"hhi", "top_entity", "top_entity_percent">>,
                          <<risk,
                            IF top_n # <<>> THEN Get(top_n[1], "value") ELSE NoneV,
                            IF top_n # <<>> THEN Get(top_n[1], "percent") ELSE IntV(0)>>)) :
           risk \in {Get(stats, "concentration_risk")},
           top_n \in {Get(stats, "top_n").items} })

_detect_anomalies(df, numeric_stats, categorical_stats) ==
    LET numeric == SelectSeq([i \in 1..Len(numeric_stats.keys) |-> i],
                       LAMBDA i : GetOr(Get(numeric_stats.items[i], "outliers"),
                                        "count", IntV(0)).n > 0)
        concentrated == SelectSeq([i \in 1..Len(categorical_stats.keys) |-> i],
                            LAMBDA i :
                                LET risk == Get(categorical_stats.items[i], "concentration_risk")
                                IN  4 * risk.n > risk.d)
    IN  [j \in 1..Len(numeric) |->
            OutlierAnomaly(df, numeric_stats.keys[numeric[j]],
                           numeric_stats.items[numeric[j]])]
        \o [j \in 1..Len(concentrated) |->
               ConcentrationAnomaly(categorical_stats.keys[concentrated[j]],
                                    categorical_stats.items[concentrated[j]])]

-----------------------------------------------------------------------------
(* sorted(items, key=...): the list sort of CPython for a short list, a     *)
(* run found at the front and the rest put in by binary insertion; what it *)
(* compares are the keys, and a NaN key is less than nothing.  The entries *)
(* sorted are <<key, payload>>.                                            *)

\* key a < key b, for keys that are ints and floats >= 0
KeyLt(a, b) ==
    /\ ~IsNaN(a) /\ ~IsNaN(b)
    /\ LET an == IF a.rt = 2 THEN a.n ELSE a.n * a.n
           ad == IF a.rt = 2 THEN a.d ELSE a.d * a.d
           bn == IF b.rt = 2 THEN b.n ELSE b.n * b.n
           bd == IF b.rt = 2 THEN b.d ELSE b.d * b.d
       IN  an * bd < bn * ad

Reverse(s) == [i \in 1..Len(s) |-> s[Len(s) + 1 - i]]

\* the length of the run at the front of a, which has at least 2 entries
RECURSIVE RunLength(_, _, _)
RunLength(a, i, descending) ==
    IF i > Len(a) THEN Len(a)
    ELSE IF KeyLt(a[i][1], a[i - 1][1]) = descending THEN RunLength(a, i + 1, descending)
    ELSE i - 1

\* where the pivot goes among a[l..r-1]
RECURSIVE BinaryPosition(_, _, _, _)
BinaryPosition(a, pivot, l, r) ==
    IF l >= r THEN l
    ELSE LET p == l + (r - l) \div 2
         IN  IF KeyLt(pivot[1], a[p][1]) THEN BinaryPosition(a, pivot, l, p)
             ELSE BinaryPosition(a, pivot, p + 1, r)

\* the entries from position start on put into the sorted front
RECURSIVE BinarySort(_, _)
BinarySort(a, start) ==
    IF start > Len(a) THEN a
    ELSE LET at == BinaryPosition(a, a[start], 1, start)
         IN  BinarySort(SubSeq(a, 1, at - 1) \o <<a[start]>>
                            \o SubSeq(a, at, start - 1) \o SubSeq(a, start + 1, Len(a)),
                        start + 1)

ListSort(a) ==
    IF Len(a) < 2 THEN a
    ELSE LET descending == KeyLt(a[2][1], a[1][1])
             run == RunLength(a, 3, descending)
         IN  BinarySort(IF descending
                        THEN Reverse(SubSeq(a, 1, run)) \o SubSeq(a, run + 1, Len(a))
                        ELSE a,
                        run + 1)

\* sorted(a, key=..., reverse=...): reverse=True reverses before and after
sorted(a, reverse) == IF reverse THEN Reverse(ListSort(Reverse(a))) ELSE ListSort(a)

-----------------------------------------------------------------------------
(* DataCardGenerator._generate_chart_data *)

HistogramBins == 20

ChartOf(type, field, data) ==
    Dict(<<"type", "field", "data">>, <<Str(type), Str(field), data>>)

\* np.histogram(data, bins=20) of the numbers xs: 21 edges from the least to
\* the greatest number (half a unit wider on each side when they are equal),
\* and the count of each bin, the last bin holding its right edge
histogram(xs, stats) ==
    LET s == SortAsc(xs)
        \* twice the first and the last edge
        F == IF s[1] = s[Len(s)] THEN 2 * s[1] - 1 ELSE 2 * s[1]
        L == IF s[1] = s[Len(s)] THEN 2 * s[1] + 1 ELSE 2 * s[Len(s)]
        bin(x) == IF 2 * x = L THEN HistogramBins
                  ELSE ((2 * x - F) * HistogramBins) \div (L - F) + 1
    IN  Dict(<<"bins", "counts", "mean", "median">>,
             <<List([i \in 1..(HistogramBins + 1) |->
                        Flt(HistogramBins * F + (i - 1) * (L - F), 2 * HistogramBins)]),
               List([b \in 1..HistogramBins |->
                        IntV(Len(SelectSeq(xs, LAMBDA x : bin(x) = b)))]),
               Get(stats, "mean"), Get(stats, "median")>>)

BarChart(field, stats) ==
    LET top_n == Get(stats, "top_n").items
        column(key) == List([i \in 1..Len(top_n) |-> Get(top_n[i], key)])
    IN  ChartOf("bar", field,
                Dict(<<"labels", "values", "percentages">>,
                     <<column("value"), column("count"), column("percent")>>))

_generate_chart_data(df, schema, numeric_stats, categorical_stats) ==
    LET numeric_fields_sorted ==
            sorted([i \in 1..Len(numeric_stats.keys) |->
                       <<Get(numeric_stats.items[i], "std"), numeric_stats.keys[i]>>],
                   TRUE)
        with_data == SelectSeq(numeric_fields_sorted,
                         LAMBDA e : /\ InColumns(df, e[2])
                                    /\ Len(dropna(df.col[e[2]]).cells) > 0)
        categorical_fields_sorted ==
            sorted([i \in 1..Len(categorical_stats.keys) |->
                       <<Get(categorical_stats.items[i], "unique_count"),
                         categorical_stats.keys[i]>>],
                   FALSE)
        with_top == SelectSeq(categorical_fields_sorted,
                        LAMBDA e : Get(Get(categorical_stats, e[2]), "top_n").items # <<>>)
    IN  [j \in 1..Len(with_data) |->
            ChartOf("histogram", with_data[j][2],
                    histogram(Numbers(dropna(df.col[with_data[j][2]])),
                              Get(numeric_stats, with_data[j][2])))]
        \o [j \in 1..Len(with_top) |->
               BarChart(with_top[j][2], Get(categorical_stats, with_top[j][2]))]

-----------------------------------------------------------------------------
(* DataCardGenerator *)

\* DataCardGenerator.__init__: the generator holds its four services, and a
\* service has no attribute of its own
DataCardGenerator ==
    [schema_inferrer |-> EmptyDict, stat_analyzer |-> EmptyDict,
     cat_analyzer |-> EmptyDict, temp_analyzer |-> EmptyDict]

DataCardOf(summary, numeric_stats, categorical_stats, temporal_stats, correlations, anomalies, chart_data) ==
    Dict(<<"summary", "numeric_stats", "categorical_stats", "temporal_stats",
           "correlations", "anomalies", "chart_data">>,
         <<summary, numeric_stats, categorical_stats, temporal_stats,
           correlations, List(anomalies), List(chart_data)>>)

\* an empty card whose summary has the counts of a card that is not empty
_empty_data_card_with_counts ==
    DataCardOf(Dict(<<"record_count", "field_count">>, <<IntV(0), IntV(0)>>),
               EmptyDict, EmptyDict, EmptyDict, EmptyDict, <<>>, <<>>)

\* DataCardGenerator._empty_data_card
_empty_data_card ==
    DataCardOf(Dict(<<"record_count">>, <<IntV(0)>>),
               EmptyDict, EmptyDict, EmptyDict, EmptyDict, <<>>, <<>>)

\* the fields of a schema list that are columns, each once, in the order the
\* loop of generate first meets them
FieldsAnalysed(df, fields) ==
    Distinct(SelectSeq(fields, LAMBDA f : InColumns(df, f)), <<>>)

\* the loop over schema["numeric"] from field number i on: the stats by
\* field, or the exception of the first field that raises
RECURSIVE numeric_loop(_, _, _, _, _, _)
numeric_loop(df, fields, i, options, scipy, acc) ==
    IF i > Len(fields) THEN Ok(acc)
    ELSE IF ~InColumns(df, fields[i]) THEN numeric_loop(df, fields, i + 1, options, scipy, acc)
    ELSE LET stats == analyze_numeric_field(df.col[fields[i]], options.outlier_method,
                                            options.outlier_threshold, scipy)
         IN  IF Raised(stats) THEN stats
             ELSE numeric_loop(df, fields, i + 1, options, scipy,
                               Put(acc, fields[i], stats.val))

\* the loop over schema["categorical"]
categorical_loop(df, fields, options) ==
    LET done == FieldsAnalysed(df, fields)
    IN  Dict(done, [i \in 1..Len(done) |->
                       analyze_categorical_field(df.col[done[i]], options.top_n)])

\* the loop over schema["temporal"]
temporal_loop(df, fields) ==
    LET done == FieldsAnalysed(df, fields)
    IN  Dict(done, [i \in 1..Len(done) |-> analyze_temporal_field(df.col[done[i]])])

\* the names of the analyzer calls a loop of generate makes
CallsOf(name, df, fields) ==
    LET done == SelectSeq(fields, LAMBDA f : InColumns(df, f))
    IN  [i \in 1..Len(done) |-> name \o ":" \o done[i]]

\* the calls of the numeric loop up to the first that raises
RECURSIVE NumericCalls(_, _, _, _, _)
NumericCalls(df, fields, i, options, scipy) ==
    IF i > Len(fields) THEN <<>>
    ELSE IF ~InColumns(df, fields[i]) THEN NumericCalls(df, fields, i + 1, options, scipy)
    ELSE <<"analyze_numeric_field:" \o fields[i]>>
         \o (IF Raised(analyze_numeric_field(df.col[fields[i]], options.outlier_method,
                                             options.outlier_threshold, scipy))
             THEN <<>>
             ELSE NumericCalls(df, fields, i + 1, options, scipy))

Returned(out, self, calls) == [out |-> out, self |-> self, steps |-> calls]

\* generate from the summary on (lines 47 to 100), the statistics given as
\* the loops left them
generate_card(self, req, df, schema, summary, numeric_stats, categorical_stats, temporal_stats, correlations, numeric_calls) ==
    LET s2 == <<"DataFrame", IF req.schema.given THEN "request.schema" ELSE "infer_schema",
                "_generate_summary">>
        s3 == s2 \o numeric_calls
        s4 == s3 \o CallsOf("analyze_categorical_field", df, schema.categorical)
                 \o CallsOf("analyze_temporal_field", df, schema.temporal)
        s5 == IF req.options.compute_correlations /\ Len(schema.numeric) >= 2
              THEN Append(s4, "compute_correlations") ELSE s4
        s6 == Append(s5, "_detect_anomalies")
                 \o (IF req.options.include_distributions
                     THEN <<"_generate_chart_data">> ELSE <<>>)
    IN  IF Raised(summary) THEN Returned(summary, self, s2)
        ELSE IF Raised(numeric_stats) THEN Returned(numeric_stats, self, s3)
        ELSE IF Raised(correlations) THEN Returned(correlations, self, s5)
        ELSE Returned(Ok(DataCardOf(summary.val, numeric_stats.val, categorical_stats,
                                    temporal_stats, correlations.val,
                                    _detect_anomalies(df, numeric_stats.val,
                                                      categorical_stats),
                                    IF req.options.include_distributions
                                    THEN _generate_chart_data(df, schema,
                                                              numeric_stats.val,
                                                              categorical_stats)
                                    ELSE <<>>)),
                      self, s6)

\* generate once the schema is resolved: the summary, the three loops and
\* the correlations
generate_with(self, req, scipy, df, schema) ==
    Only({ generate_card(self, req, df, schema, summary, numeric_stats,
                         categorical_stats, temporal_stats, correlations, numeric_calls) :
           summary \in {_generate_summary(df, schema)},
           numeric_stats \in {numeric_loop(df, schema.numeric, 1, req.options, scipy,
                                           EmptyDict)},
           categorical_stats \in {categorical_loop(df, schema.categorical, req.options)},
           temporal_stats \in {temporal_loop(df, schema.temporal)},
           correlations \in
               {IF req.options.compute_correlations /\ Len(schema.numeric) >= 2
                THEN compute_correlations(df, schema.numeric) ELSE Ok(EmptyDict)},
           numeric_calls \in {NumericCalls(df, schema.numeric, 1, req.options, scipy)} })

\* generate once the table is made: the empty card, or the schema of the
\* request or the inferred one
generate_on(self, req, scipy, df) ==
    IF df_empty(df)
    THEN Returned(Ok(_empty_data_card), self, <<"DataFrame", "_empty_data_card">>)
    ELSE Only({ generate_with(self, req, scipy, df, schema) :
                schema \in {IF req.schema.given
                            THEN SchemaOf(req.schema.numeric, req.schema.categorical,
                                          req.schema.temporal)
                            ELSE infer_schema(df)} })

\* a generate that notes in its analyzer that it has been called, and
\* counts the records of the earlier call with those of this one
generate_noting_calls(self, req, scipy) ==
    LET noted == IF HasKey(self.stat_analyzer, "called") THEN 1 ELSE 0
    IN  Returned(Ok(DataCardOf(Dict(<<"record_count">>, <<IntV(Len(req.data) + noted)>>),
                               EmptyDict, EmptyDict, EmptyDict, EmptyDict, <<>>, <<>>)),
                 [self EXCEPT !.stat_analyzer = Put(@, "called", IntV(1))],
                 <<"DataFrame">>)

\* DataCardGenerator.generate: the outcome, the generator after the call and
\* the calls made, in order
generate(self, req, scipy) ==
    Only({ generate_on(self, req, scipy, df) : df \in {DataFrame(req.data)} })

-----------------------------------------------------------------------------
(* main.py *)

\* a cleaning that does not descend: only the floats that are values of the
\* map given are replaced
clean_nan_values_top_level(obj) ==
    IF obj.kind = "dict"
    THEN Dict(obj.keys, [i \in 1..Len(obj.items) |->
                            IF IsNonFinite(obj.items[i]) THEN NoneV ELSE obj.items[i]])
    ELSE obj

\* clean_nan_values
RECURSIVE clean_nan_values(_)
clean_nan_values(obj) ==
    IF obj.kind = "dict"
    THEN Dict(obj.keys, [i \in 1..Len(obj.items) |-> clean_nan_values(obj.items[i])])
    ELSE IF obj.kind = "list"
    THEN List([i \in 1..Len(obj.items) |-> clean_nan_values(obj.items[i])])
    ELSE IF obj.kind = "float"
    THEN (IF obj.s = "nan" \/ obj.s \in {"inf", "-inf"} THEN NoneV ELSE obj)
    ELSE obj

\* what the caller of analyze_dataset gets: the value returned, or the
\* HTTPException raised
Returns(body) == [status_code |-> 200, detail |-> "", body |-> body]

HTTPException(status_code, detail) ==
    [status_code |-> status_code, detail |-> detail, body |-> NoneV]

BadRequest == 400

InternalError == 500

\* the except clauses in the other order: except Exception catches all
Handle_exception_first(e) ==
    HTTPException(InternalError, "Analysis failed: " \o e.msg)

\* the except clauses of analyze_dataset: ValueError first, then Exception
Handle(e) ==
    IF e.exc = "ValueError" THEN HTTPException(BadRequest, e.msg)
    ELSE HTTPException(InternalError, "Analysis failed: " \o e.msg)

\* analyze_dataset: the outcome, the generator after the call and the calls
\* generate made.  The HTTPException for empty data is raised inside the try.
analyze_dataset(self, req, scipy) ==
    IF req.data = <<>>
    THEN [response |-> Handle(Raise("HTTPException",
                                    ToString(BadRequest) \o ": Empty dataset provided")),
          self |-> self, steps |-> <<>>]
    ELSE Only({ IF Raised(made.out)
                THEN [response |-> Handle(made.out), self |-> made.self,
                      steps |-> made.steps]
                ELSE [response |-> Returns(clean_nan_values(made.out.val)),
                      self |-> made.self, steps |-> made.steps] :
                made \in {generate(self, req, scipy)} })

-----------------------------------------------------------------------------
(* The requests of the model *)

MaxRecords == 2

MaxRepeatRecords == 1

MaxSeriesLen == 4

MaxCategoryLen == 6

LongRun == 101

\* the records whose keys are among the keys of cells, cells[k] the cells a
\* key k may hold
RecordsOver(cells) ==
    UNION { {r \in [K -> UNION {cells[k] : k \in K}] : \A k \in K : r[k] \in cells[k]} :
            K \in SUBSET (DOMAIN cells) }

DatasetsOver(cells, max) == UNION {[1..n -> RecordsOver(cells)] : n \in 0..max}

NoSchema == [given |-> FALSE, numeric |-> <<>>, categorical |-> <<>>, temporal |-> <<>>]

Given(numeric, categorical, temporal) ==
    [given |-> TRUE, numeric |-> numeric, categorical |-> categorical, temporal |-> temporal]

\* AnalysisOptions(): the defaults
DefaultOptions ==
    [compute_correlations |-> TRUE, outlier_method |-> "zscore",
     outlier_threshold |-> Flt(3, 1), top_n |-> 10, include_distributions |-> TRUE]

\* the defaults, and the defaults with one option changed
OptionsTried ==
    { DefaultOptions,
      [DefaultOptions EXCEPT !.outlier_method = "iqr", !.outlier_threshold = Flt(0, 1)],
      [DefaultOptions EXCEPT !.outlier_method = "mad"],
      [DefaultOptions EXCEPT !.outlier_method = "Zscore"],
      [DefaultOptions EXCEPT !.outlier_threshold = Flt(1, 2)],
      [DefaultOptions EXCEPT !.top_n = 1],
      [DefaultOptions EXCEPT !.compute_correlations = FALSE],
      [DefaultOptions EXCEPT !.include_distributions = FALSE] }

\* no schema, a schema that names each column once, and schemas that name a
\* column twice, a column of strings as numeric, a field that is no column
SchemasTried ==
    { NoSchema,
      Given(<<"amount">>, <<"value">>, <<>>),
      Given(<<"amount">>, <<"amount", "value">>, <<>>),
      Given(<<"value">>, <<>>, <<"amount", "value">>),
      Given(<<"amount", "score">>, <<"value">>, <<>>),
      Given(<<>>, <<>>, <<>>) }

RequestCells ==
    [amount |-> {NA, NumCell(1), NumCell(2)}, value |-> {StrCell("A"), StrCell("B")}]

\* two records of three columns of numbers and a column of strings: a column
\* with one number between one that varies little and one that varies more;
\* two columns that vary alike; a column without a value
ChartTables ==
    { <<[amount |-> NumCell(0), value |-> NumCell(5), score |-> NumCell(0), _id |-> StrCell("A")],
        [amount |-> NumCell(1), value |-> NA, score |-> NumCell(2), _id |-> StrCell("B")]>>,
      <<[amount |-> NumCell(0), value |-> NumCell(0), score |-> NumCell(0), _id |-> StrCell("A")],
        [amount |-> NumCell(2), value |-> NumCell(1), score |-> NumCell(2), _id |-> StrCell("A")]>>,
      <<[amount |-> NumCell(0), value |-> NumCell(0), score |-> NA, _id |-> StrCell("A")],
        [amount |-> NumCell(1), value |-> NumCell(2), score |-> NA, _id |-> NA]>> }

\* the tables of three columns of numbers with no schema, with the schema
\* of their columns, and with columns of numbers named as categorical
ChartRequests ==
    [data : ChartTables,
     schema : {NoSchema, Given(<<"amount", "score", "value">>, <<"_id">>, <<>>),
               Given(<<"amount">>, <<"_id", "value", "score">>, <<>>)},
     options : {DefaultOptions, [DefaultOptions EXCEPT !.include_distributions = FALSE]}]

\* tables with the fields a total is taken of: amount holds strings and
\* notional comes after value, with a value missing; value alone; none
NotionalTables ==
    { <<[amount |-> StrCell("A"), value |-> NumCell(1), notional |-> NumCell(2)],
        [amount |-> StrCell("B"), value |-> NumCell(3)]>>,
      <<[value |-> NumCell(1), score |-> NumCell(5)],
        [value |-> NumCell(3), score |-> NumCell(6)]>>,
      <<[score |-> NumCell(1), _id |-> StrCell("A")]>> }

\* the tables with no schema, with a schema that leaves notional out, and
\* with one that names it first
NotionalRequests ==
    [data : NotionalTables,
     schema : {NoSchema, Given(<<"value">>, <<"amount">>, <<>>),
               Given(<<"notional", "value">>, <<>>, <<>>)},
     options : {DefaultOptions, [DefaultOptions EXCEPT !.compute_correlations = FALSE]}]

\* the number of values of a field that the default threshold never flags
MaxFewValues == 9

\* the records that hold the cells given as their amount
AmountTable(cells) == [i \in 1..Len(cells) |-> [amount |-> cells[i]]] \o <<>>

\* tables of one field: a value far from the eight, nine and ten values 0
\* after it, without and with a record that has no value
FarValueTables ==
    { AmountTable(<<NumCell(11)>> \o [i \in 1..n |-> NumCell(0)] \o rest) :
        n \in {MaxFewValues - 1, MaxFewValues, MaxFewValues + 1},
        rest \in {<<>>, <<NA>>} }

\* tables of one field: every choice of nine and of ten values 0 and 1, and
\* the tables of a value far from the others
TenValueTables ==
    { AmountTable(cells) :
        cells \in UNION { [1..n -> {NumCell(0), NumCell(1)}] :
                            n \in {MaxFewValues, MaxFewValues + 1} } }
    \cup FarValueTables

TenValueRequests ==
    [data : TenValueTables, schema : {NoSchema}, options : {DefaultOptions}]

\* the tables of a value far from the others under a method that is neither
\* zscore nor iqr
UnknownMethodRequests ==
    [data : FarValueTables, schema : {NoSchema},
     options : {[DefaultOptions EXCEPT !.outlier_method = "mad"]}]

\* every schema with the default options, and every choice of options with
\* no schema and with the schema that names each column once
Requests ==
    [data : DatasetsOver(RequestCells, MaxRecords),
     schema : SchemasTried,
     options : {DefaultOptions}]
    \cup [data : DatasetsOver(RequestCells, MaxRecords),
          schema : {NoSchema, Given(<<"amount">>, <<"value">>, <<>>)},
          options : OptionsTried]
    \cup ChartRequests \cup NotionalRequests \cup TenValueRequests
    \cup UnknownMethodRequests

RepeatCells == [amount |-> {NumCell(1)}, value |-> {StrCell("A")}]

RepeatRequests ==
    [data : DatasetsOver(RepeatCells, MaxRepeatRecords),
     schema : {NoSchema, Given(<<"value">>, <<"amount">>, <<>>)},
     options : {DefaultOptions}]

-----------------------------------------------------------------------------------------------------------------------------------------------------
(* The state machine.  A request is sent, then analyze_dataset handles it   *)
(* in one step: the handler never suspends.                                *)

NoRequest == [data |-> <<>>, schema |-> NoSchema, options |-> DefaultOptions]

\* no request has been handled yet
NoResponse == HTTPException(0, "")

NoCall == [fn |-> "", series |-> Series(<<>>, <<>>, "object"), method |-> "",
           threshold |-> Flt(0, 1), top_n |-> 0, request |-> NoRequest]

Builds == [scipy : {"nan_for_constant", "zero_for_constant"},
           rounding : {"on_the_threshold", "past_the_threshold"}]

Init ==
    /\ datacard_generator = DataCardGenerator
    /\ build \in Builds
    /\ request = NoRequest
    /\ pending = FALSE
    /\ response = NoResponse
    /\ steps = <<>>
    /\ earlier = <<NoRequest, NoResponse>>
    /\ call = NoCall
    /\ result = Ok(NoneV)

\* a caller sends a request to a service that has handled none
Send ==
    /\ ~pending /\ response = NoResponse
    /\ \E req \in Requests : request' = req
    /\ pending' = TRUE
    /\ UNCHANGED <<datacard_generator, build, response, steps, earlier, call, result>>

\* a caller sends a request to a service that may have handled others; an
\* observer keeps the invocation before it, or the one it kept
SendAgain ==
    /\ ~pending
    /\ \E req \in RepeatRequests : request' = req
    /\ pending' = TRUE
    /\ \E keep \in BOOLEAN :
          earlier' = IF keep /\ response # NoResponse
                     THEN <<request, response>> ELSE earlier
    /\ UNCHANGED <<datacard_generator, build, response, steps, call, result>>

\* POST /api/v1/analyze/dataset: analyze_dataset handles the request
AnalyzeDataset ==
    /\ pending
    /\ \E done \in {analyze_dataset(datacard_generator, request, build.scipy)} :
          /\ response' = done.response
          /\ steps' = done.steps
          /\ datacard_generator' = done.self
    /\ pending' = FALSE
    /\ UNCHANGED <<build, request, earlier, call, result>>

\* a direct call of DataCardGenerator.generate, on a generator not yet called
CallGenerate ==
    /\ call = NoCall
    /\ \E req \in Requests :
        \E made \in {generate(datacard_generator, req, build.scipy)} :
            /\ call' = [NoCall EXCEPT !.fn = "generate", !.request = req]
            /\ result' = made.out
            /\ steps' = made.steps
            /\ datacard_generator' = made.self
    /\ UNCHANGED <<build, request, pending, response, earlier>>

Next == Send \/ AnalyzeDataset

Spec == Init /\ [][Next]_vars

NextRepeat == SendAgain \/ AnalyzeDataset

SpecRepeat == Init /\ [][NextRepeat]_vars

NextGenerate == CallGenerate

SpecGenerate == Init /\ [][NextGenerate]_vars

-----------------------------------------------------------------------------
(* Direct calls of the analyzers, each on a service not yet called *)

\* the cells of a numeric column and of a categorical column
NumericCells == {NA, NumCell(-2), NumCell(0), NumCell(1)}

CategoryCells == {NA, StrCell("A"), StrCell("B"), StrCell("C")}

\* df[field] of a dataset of up to max records: the labels are the positions
ColumnsOver(cells, max) ==
    UNION { {Series(c, [i \in 1..n |-> i - 1], ColumnDtype(c)) : c \in [1..n -> cells]} :
            n \in 0..max }

MethodsTried == {"zscore", "iqr", "mad"}

ThresholdsTried == {Flt(0, 1), Flt(1, 2), Flt(3, 1)}

TopNTried == {0, 1, 2, 10}

\* the numbers that long columns repeat
PatternsTried == {<<0, 1, 1, 2>>, <<0, 0, 0, 2>>, <<2, 1, 0>>, <<1>>}

\* clean_data of a long column: a pattern repeated, every stride-th record of
\* the dataset holding a value
LongSeries(pattern, repeats, stride) ==
    LET n == Len(pattern) * repeats
    IN  Series([i \in 1..n |-> NumCell(pattern[((i - 1) % Len(pattern)) + 1])],
               [i \in 1..n |-> stride * (i - 1)],
               IF stride = 1 THEN "int64" ELSE "float64")

\* the field "amount" of the records {"amount": 10}, {"amount": 20}, {"amount": 30}
ExampleColumns == {Series(<<NumCell(10), NumCell(20), NumCell(30)>>, <<0, 1, 2>>, "int64")}

\* five numbers, the second and the fourth of them the quartiles
QuartileColumns ==
    {Series(<<NumCell(0), NumCell(1), NumCell(2), NumCell(3), NumCell(4)>>,
            <<0, 1, 2, 3, 4>>, "int64")}

LongColumns ==
    {LongSeries(p, r, s) : p \in PatternsTried, r \in {1, LongRun}, s \in {1, 2}}

\* the number of distinct labels that occur seldom in a long categorical column
MaxLabels == 51

\* the labels "01", "02", ... of a categorical column, n of them from the
\* first-th on
Labels(first, n) == [i \in 1..n |-> StrCell(Pad(first + i - 1, 2))] \o <<>>

\* n cells that hold the same value
Repeat(c, n) == [i \in 1..n |-> c] \o <<>>

\* long categorical columns: one value in 100 and one in 101; one value
\* twice and one once in 200 and in 201; a missing value besides 100 values;
\* 50 and 51 labels once besides a frequent value; 51 labels twice and one
\* label once
LongCategoryColumns ==
    { Series(cells, [i \in 1..Len(cells) |-> i - 1], "object") :
        cells \in { Repeat(StrCell("A"), 99) \o <<StrCell("B")>>,
                    Repeat(StrCell("A"), 100) \o <<StrCell("B")>>,
                    <<StrCell("B"), StrCell("C"), StrCell("C")>> \o Repeat(StrCell("A"), 197),
                    <<StrCell("B"), StrCell("C"), StrCell("C")>> \o Repeat(StrCell("A"), 198),
                    <<NA>> \o Repeat(StrCell("A"), 99) \o <<StrCell("B")>>,
                    Labels(1, MaxLabels - 1) \o Repeat(StrCell("A"), MaxLabels),
                    Labels(1, MaxLabels) \o Repeat(StrCell("A"), MaxLabels - 1),
                    Labels(MaxLabels + 1, 1) \o Labels(1, MaxLabels) \o Labels(1, MaxLabels)
                        \o Repeat(StrCell("A"), 2 * MaxLabels - 4) } }

\* stat_analyzer.analyze_numeric_field(df[field], outlier_method, outlier_threshold)
CallAnalyzeNumericField ==
    /\ call = NoCall
    /\ \E series \in ColumnsOver(NumericCells, MaxSeriesLen) \cup ExampleColumns
                          \cup QuartileColumns,
          method \in MethodsTried, threshold \in ThresholdsTried :
        /\ call' = [NoCall EXCEPT !.fn = "analyze_numeric_field", !.series = series,
                                  !.method = method, !.threshold = threshold]
        /\ result' = analyze_numeric_field(series, method, threshold, build.scipy)
    /\ UNCHANGED <<datacard_generator, build, request, pending, response, steps, earlier>>

\* self._detect_outliers(clean_data, method, threshold)
CallDetectOutliers ==
    /\ call = NoCall
    /\ \E series \in LongColumns, method \in MethodsTried, threshold \in ThresholdsTried :
        /\ call' = [NoCall EXCEPT !.fn = "_detect_outliers", !.series = series,
                                  !.method = method, !.threshold = threshold]
        /\ result' = Ok(_detect_outliers(series, method, threshold))
    /\ UNCHANGED <<datacard_generator, build, request, pending, response, steps, earlier>>

\* cat_analyzer.analyze_categorical_field(df[field], top_n)
CallAnalyzeCategoricalField ==
    /\ call = NoCall
    /\ \E series \in ColumnsOver(CategoryCells, MaxCategoryLen) \cup LongCategoryColumns,
          top_n \in TopNTried :
        /\ call' = [NoCall EXCEPT !.fn = "analyze_categorical_field", !.series = series,
                                  !.top_n = top_n]
        /\ result' = Ok(analyze_categorical_field(series, top_n))
    /\ UNCHANGED <<datacard_generator, build, request, pending, response, steps, earlier>>

NextNumeric == CallAnalyzeNumericField \/ CallDetectOutliers

SpecNumeric == Init /\ [][NextNumeric]_vars

NextCategorical == CallAnalyzeCategoricalField

SpecCategorical == Init /\ [][NextCategorical]_vars

-----------------------------------------------------------------------------
(* Direct calls of the services that take the whole table *)

MaxPairedRecords == 2

\* the cells of the records whose columns are correlated: a column without
\* missing values, one with, and one that holds a string or a number
PairedCells ==
    [amount |-> {NumCell(1), NumCell(2)},
     score  |-> {NA, NumCell(0), NumCell(3)},
     value  |-> {StrCell("A"), NumCell(1)}]

\* numeric_fields: in and against the order of the columns, with a field
\* named twice, with a field that is no column, with a single field
FieldListsTried ==
    { <<"amount", "score">>, <<"score", "amount">>, <<"amount", "score", "value">>,
      <<"value", "score", "amount">>, <<"amount", "amount">>,
      <<"score", "amount", "score">>, <<"amount", "total">>, <<"amount">> }

\* columns of five numbers whose coefficient with 0, 1, 2, 3, 4 is 1, 0.9,
\* 0.8, 0.7, 0.6, -0.7 and -0.9
GradedColumns ==
    { <<0, 1, 2, 3, 4>>, <<0, 1, 2, 4, 3>>, <<1, 0, 2, 4, 3>>, <<0, 1, 3, 4, 2>>,
      <<1, 0, 3, 4, 2>>, <<2, 4, 3, 1, 0>>, <<3, 4, 2, 1, 0>> }

\* tables of five records whose columns are correlated to a degree
GradedTables ==
    { [i \in 1..5 |-> [amount |-> NumCell(i - 1), score |-> NumCell(s[i]),
                       value |-> NumCell(v[i])]] \o <<>> :
        s \in GradedColumns, v \in GradedColumns }

\* tables whose field names have an underscore at either end: the names of
\* amount and _id, and those of amount_ and id, join to the same text
UnderscoreTables ==
    { <<[amount |-> NumCell(0), _id |-> NumCell(0), amount_ |-> NumCell(0), id |-> NumCell(1)],
        [amount |-> NumCell(1), _id |-> NumCell(1), amount_ |-> NumCell(1), id |-> NumCell(0)]>>,
      <<[amount |-> NumCell(0), _id |-> NumCell(0), amount_ |-> NumCell(0), id |-> NumCell(2)],
        [amount |-> NumCell(1), _id |-> NumCell(2), amount_ |-> NumCell(1), id |-> NumCell(0)],
        [amount |-> NumCell(2), _id |-> NumCell(1), amount_ |-> NumCell(0), id |-> NumCell(1)]>> }

UnderscoreListsTried ==
    { <<"amount", "_id", "amount_", "id">>, <<"amount_", "id", "amount", "_id">>,
      <<"amount", "_id", "id">> }

\* stat_analyzer.compute_correlations(df, schema["numeric"])
CallComputeCorrelations ==
    /\ call = NoCall
    /\ \E tried \in ((DatasetsOver(PairedCells, MaxPairedRecords) \cup GradedTables)
                        \X FieldListsTried)
                      \cup (UnderscoreTables \X UnderscoreListsTried) :
       \E data \in {tried[1]}, numeric_fields \in {tried[2]} :
        /\ call' = [NoCall EXCEPT !.fn = "compute_correlations",
                                  !.request = [data |-> data,
                                               schema |-> Given(numeric_fields, <<>>, <<>>),
                                               options |-> DefaultOptions]]
        /\ \E found \in {compute_correlations(DataFrame(data), numeric_fields)} :
              result' = found
    /\ UNCHANGED <<datacard_generator, build, request, pending, response, steps, earlier>>

NextCorrelations == CallComputeCorrelations

SpecCorrelations == Init /\ [][NextCorrelations]_vars

\* the records that hold a cell for every key of cells
FullRecords(cells) == {r \in RecordsOver(cells) : DOMAIN r = DOMAIN cells}

MaxShortRecords == 2

\* two numeric columns, one with missing values, and two columns of strings
AnomalyCells ==
    [amount |-> {NA, NumCell(0), NumCell(9)},
     score  |-> {NumCell(0), NumCell(1)},
     value  |-> {StrCell("A"), StrCell("B")},
     _id    |-> {NA, StrCell("A")}]

ShortTables == UNION {[1..n -> FullRecords(AnomalyCells)] : n \in 0..MaxShortRecords}

\* n cells that repeat a pattern
Cycle(pattern, n) == [i \in 1..n |-> pattern[((i - 1) % Len(pattern)) + 1]] \o <<>>

CyclesOf(n, patterns) == {Cycle(pattern, n) : pattern \in patterns}

\* the records of a table given by its columns
TableOf(amount, score, value, id) ==
    [i \in 1..Len(amount) |->
        [k \in {"amount", "score", "value", "_id"} |->
            IF k = "amount" THEN amount[i] ELSE IF k = "score" THEN score[i]
            ELSE IF k = "value" THEN value[i] ELSE id[i]] @@ <<>>] \o <<>>

\* tables of ten records: one value in ten stands out, a value is missing;
\* nine "A" and one "B", five of each, and four values 3, 3, 2, 2 times
TenRecordTables ==
    { TableOf(amount, score, value, id) :
        amount \in CyclesOf(10, { <<NumCell(0), NumCell(0), NumCell(0), NumCell(0), NumCell(0),
                       NumCell(0), NumCell(0), NumCell(0), NumCell(0), NumCell(9)>>,
                     <<NA, NumCell(0), NumCell(0), NumCell(0), NumCell(0),
                       NumCell(0), NumCell(0), NumCell(0), NumCell(0), NumCell(9)>>,
                     <<NA, NumCell(0), NumCell(9), NumCell(0), NumCell(0)>> }),
        score \in CyclesOf(10, { <<NumCell(1)>>, <<NumCell(0), NumCell(3)>> }),
        value \in CyclesOf(10, { <<StrCell("A"), StrCell("A"), StrCell("A"), StrCell("A"), StrCell("A"),
                      StrCell("A"), StrCell("A"), StrCell("A"), StrCell("A"), StrCell("B")>>,
                    <<StrCell("A"), StrCell("B")>> }),
        id \in CyclesOf(10, { <<StrCell("A"), StrCell("B"), StrCell("C"), StrCell("D")>>, <<NA>> }) }

\* tables of four records repeated: more than 100 values stand out; four
\* values equally often
LongTables ==
    { TableOf(amount, score, value, id) :
        amount \in CyclesOf(4 * LongRun, { <<NumCell(0), NumCell(1), NumCell(1), NumCell(2)>>,
                     <<NA, NumCell(0), NumCell(2), NA>> }),
        score \in CyclesOf(4 * LongRun, { <<NumCell(1)>> }),
        value \in CyclesOf(4 * LongRun, { <<StrCell("A"), StrCell("A"), StrCell("A"), StrCell("B")>> }),
        id \in CyclesOf(4 * LongRun, { <<StrCell("A"), StrCell("B"), StrCell("C"), StrCell("D")>> }) }

\* self._detect_anomalies(df, numeric_stats, categorical_stats), on the stats
\* that the loops of generate make of the table
CallDetectAnomalies ==
    /\ call = NoCall
    /\ \E data \in ShortTables \cup TenRecordTables \cup LongTables, options \in OptionsTried :
        \E df \in {DataFrame(data)} :
        \E numeric_stats \in {numeric_loop(df, <<"amount", "score">>, 1, options,
                                            build.scipy, EmptyDict).val},
           categorical_stats \in {categorical_loop(df, <<"value", "_id">>, options)} :
            /\ call' = [NoCall EXCEPT !.fn = "_detect_anomalies",
                                      !.request = [data |-> data,
                                                   schema |-> Given(<<"amount", "score">>,
                                                                    <<"value", "_id">>, <<>>),
                                                   options |-> options]]
            /\ result' = Ok(List(_detect_anomalies(df, numeric_stats, categorical_stats)))
    /\ UNCHANGED <<datacard_generator, build, request, pending, response, steps, earlier>>

NextAnomalies == CallDetectAnomalies

SpecAnomalies == Init /\ [][NextAnomalies]_vars

\* df[colname] = pd.to_datetime(df[colname]) of a column of numbers: what a
\* caller does that hands infer_schema a column of a timestamp type; with ""
\* for colname the table is left as it is
with_datetime(df, colname) ==
    IF InColumns(df, colname) /\ is_numeric_dtype(df.col[colname].dtype)
    THEN [df EXCEPT !.col[colname].dtype = "datetime64"]
    ELSE df

\* a list of names
NameList(names) == Only({ List([i \in 1..Len(v) |-> Str(v[i])] \o <<>>) : v \in {names} })

MaxSchemaRecords == 2

\* a column of numbers, a column of strings and of dates, and a metadata
\* column of dates
SchemaCells ==
    [amount |-> {NA, NumCell(1)},
     value  |-> {NA, StrCell("A"), StrCell("2024-01-01")},
     _id    |-> {StrCell("2024-01-01")}]

\* a date in each of n cells but the cells numbered in others, which hold
\* the cell other
DatesBut(n, others, other) ==
    [i \in 1..n |-> IF i \in others THEN other ELSE StrCell("2024-01-01")] \o <<>>

\* tables of SampleSize + 2 records: a string that is no date before and
\* after the tenth non-missing value of a column
SampledTables ==
    { TableOf(amount, score, value, id) :
        amount \in { DatesBut(SampleSize + 2, {SampleSize + 1}, StrCell("A")),
                     DatesBut(SampleSize + 2, {SampleSize}, StrCell("A")),
                     DatesBut(SampleSize + 2, {SampleSize + 1}, NA) },
        score \in { DatesBut(SampleSize + 2, {1, SampleSize + 2}, NA),
                    Cycle(<<NumCell(1), NA>>, SampleSize + 2) },
        value \in { DatesBut(SampleSize + 2, {1, SampleSize + 2}, StrCell("A")),
                    DatesBut(SampleSize + 2, {2, SampleSize + 2}, NA),
                    DatesBut(SampleSize + 2, 1..(SampleSize + 2), NA) },
        id \in { DatesBut(SampleSize + 2, {}, NA) } }

\* schema_service.infer_schema(df)
CallInferSchema ==
    /\ call = NoCall
    /\ \E data \in DatasetsOver(SchemaCells, MaxSchemaRecords) \cup SampledTables,
          converted \in {"", "amount"} :
        \E schema \in {infer_schema(with_datetime(DataFrame(data), converted))} :
            /\ call' = [NoCall EXCEPT !.fn = "infer_schema", !.request.data = data,
                                      !.method = converted]
            /\ result' = Ok(Dict(<<"numeric", "categorical", "temporal">>,
                                 <<NameList(schema.numeric), NameList(schema.categorical),
                                   NameList(schema.temporal)>>))
    /\ UNCHANGED <<datacard_generator, build, request, pending, response, steps, earlier>>

NextSchema == CallInferSchema

SpecSchema == Init /\ [][NextSchema]_vars

MaxTemporalLen == 3

\* dates, a string that is no date and a missing value
DateCells ==
    {NA, StrCell("A"), StrCell("2024-01-01"), StrCell("2024-01-03"), StrCell("2024-01-06")}

\* dates with a time: midnight, 30 seconds after it, noon
StampCells ==
    {NA, StrCell("2024-01-01T00:00:00"), StrCell("2024-01-01T00:00:30"),
     StrCell("2024-01-02T12:00:00"), StrCell("2024-01-04T00:00:00")}

\* the last of n days one after the other from the day first on, then the n
\* days in their order
LongDates(first, n) ==
    [i \in 1..(n + 1) |->
        StrCell(DateText(IF i = 1 THEN first + n - 1 ELSE first + i - 2))] \o <<>>

\* columns of more days than a daily distribution holds
LongDateColumns ==
    {Series(LongDates(first, LongRun), [i \in 1..(LongRun + 1) |-> i - 1], "object") :
        first \in {19723, 19782}}

\* temporal_analyzer.analyze_temporal_field(df[field])
CallAnalyzeTemporalField ==
    /\ call = NoCall
    /\ \E series \in ColumnsOver(DateCells, MaxTemporalLen)
                        \cup ColumnsOver(StampCells, MaxTemporalLen) \cup LongDateColumns :
        /\ call' = [NoCall EXCEPT !.fn = "analyze_temporal_field", !.series = series]
        /\ result' = Ok(analyze_temporal_field(series))
    /\ UNCHANGED <<datacard_generator, build, request, pending, response, steps, earlier>>

NextTemporal == CallAnalyzeTemporalField

SpecTemporal == Init /\ [][NextTemporal]_vars

-----------------------------------------------------------------------------
(* What the claims speak of *)

\* the last request sent has been handled
Handled == ~pending /\ response # NoResponse

\* what generate makes of the last request sent
Made == generate(datacard_generator, request, build.scipy)

\* a float that is NaN or infinite, at any depth of the tree
RECURSIVE HasNonFinite(_)
HasNonFinite(obj) ==
    \/ IsNonFinite(obj)
    \/ \E i \in 1..Len(obj.items) : HasNonFinite(obj.items[i])

-----------------------------------------------------------------------------
(* C1: a request whose data list is empty is answered with the input error *)
(* 400 'Empty dataset provided', never with the internal failure 500       *)
(* 'Analysis failed: ...'.                                                 *)
C1_EmptyDataIsInputError ==
    (Handled /\ request.data = <<>>) =>
        /\ response.status_code = 400
        /\ response.detail = "Empty dataset provided"

(* C2, as claimed: for a non-empty dataset every exception raised in       *)
(* generate, whatever its type, is answered as an internal failure with a  *)
(* message, never as a rejected request and never as a success.            *)
C2_EveryExceptionIsInternalFailure ==
    (Handled /\ request.data # <<>> /\ Raised(Made.out)) =>
        /\ response.status_code = 500
        /\ response.detail # ""

(* C2, amended: for a non-empty dataset every exception raised in generate *)
(* is answered as a failure that carries the exception's message and never *)
(* as a success: a ValueError as the rejected request 400 with the message *)
(* as detail, an exception of any other type as the internal failure 500   *)
(* 'Analysis failed: <message>'.                                           *)
C2_ExceptionsAreReportedByType ==
    (Handled /\ request.data # <<>> /\ Raised(Made.out)) =>
        /\ response.body = NoneV
        /\ Made.out.exc = "ValueError" =>
              /\ response.status_code = 400
              /\ response.detail = Made.out.msg
        /\ Made.out.exc # "ValueError" =>
              /\ response.status_code = 500
              /\ response.detail = "Analysis failed: " \o Made.out.msg

\* a ValueError of generate has been answered, and so has another exception
C2_Witness ==
    /\ Handled /\ request.data # <<>>
    /\ Made.out.exc = "ValueError"
    /\ response.status_code = 400

(* C3: generate called on an empty dataset returns exactly {summary:       *)
(* {record_count: 0}, numeric_stats: {}, categorical_stats: {},            *)
(* temporal_stats: {}, correlations: {}, anomalies: [], chart_data: []},   *)
(* and returns before the schema is resolved and before any analyzer,      *)
(* correlation, anomaly or chart step runs: the only calls made are the    *)
(* making of the table and of the empty card.                              *)
C3_EmptyDatasetShortCircuits ==
    (call.fn = "generate" /\ call.request.data = <<>>) =>
        /\ result = Ok(Dict(<<"summary", "numeric_stats", "categorical_stats",
                              "temporal_stats", "correlations", "anomalies",
                              "chart_data">>,
                            <<Dict(<<"record_count">>, <<IntV(0)>>),
                              EmptyDict, EmptyDict, EmptyDict, EmptyDict,
                              List(<<>>), List(<<>>)>>))
        /\ steps = <<"DataFrame", "_empty_data_card">>

\* generate has been called on an empty dataset, with a schema and with
\* charts asked for
C3_Witness ==
    /\ call.fn = "generate" /\ call.request.data = <<>>
    /\ call.request.schema.given /\ call.request.options.include_distributions
    /\ ~Raised(result) /\ Len(steps) = 2

(* C4: in every successful response of analyze_dataset no value at any     *)
(* depth of the result tree is a non-finite float: each NaN and each       *)
(* infinity of the analyzers has been replaced by the no-value marker.     *)
C4_NoNonFiniteInResponse ==
    (Handled /\ response.status_code = 200) => ~HasNonFinite(response.body)

\* a successful response whose DataCard held a NaN before it was cleaned,
\* under a map of a map (a std) and in the list of charts
C4_Witness ==
    /\ Handled /\ response.status_code = 200
    /\ HasNonFinite(Get(Made.out.val, "numeric_stats"))
    /\ Get(Get(Get(response.body, "numeric_stats"), "amount"), "std") = NoneV
    /\ Get(response.body, "chart_data").items # <<>>

SchemaUsed ==
    IF request.schema.given
    THEN SchemaOf(request.schema.numeric, request.schema.categorical,
                  request.schema.temporal)
    ELSE infer_schema(DataFrame(request.data))

\* the number of lists of the schema that name the field
ListsNaming(schema, field) ==
    (IF InSeq(field, schema.numeric) THEN 1 ELSE 0)
    + (IF InSeq(field, schema.categorical) THEN 1 ELSE 0)
    + (IF InSeq(field, schema.temporal) THEN 1 ELSE 0)

(* C6: the schema generate uses, supplied by the caller or inferred, has   *)
(* each field in exactly one of the numeric, categorical and temporal      *)
(* lists, so that no field is analysed under two categories in the same    *)
(* DataCard.                                                               *)
C6_SchemaIsAPartition ==
    (Handled /\ response.status_code = 200 /\ ~df_empty(DataFrame(request.data))) =>
        /\ \A i \in 1..Len(DataFrame(request.data).columns) :
              LET field == DataFrame(request.data).columns[i]
              IN  ~startswith(field, "_") => ListsNaming(SchemaUsed, field) = 1
        /\ \A field \in {"amount", "value"} :
              ~(/\ HasKey(Get(response.body, "numeric_stats"), field)
                /\ HasKey(Get(response.body, "categorical_stats"), field))


\* a value of the NumericStats that analyze_numeric_field returned
Stat(key) == Get(result.val, key)

(* C7: for every numeric field with at least one non-missing value the     *)
(* NumericStats that analyze_numeric_field returns satisfy                 *)
(* min <= q25 <= q50 <= q75 <= max.                                        *)
C7_QuartilesAreOrdered ==
    (call.fn = "analyze_numeric_field" /\ Stat("count").n >= 1) =>
        /\ RLeq(Stat("min"), Stat("q25"))
        /\ RLeq(Stat("q25"), Stat("q50"))
        /\ RLeq(Stat("q50"), Stat("q75"))
        /\ RLeq(Stat("q75"), Stat("max"))

\* a field with a missing value and with quartiles that lie strictly between
\* its values
C7_Witness ==
    /\ call.fn = "analyze_numeric_field"
    /\ Stat("count").n = 3 /\ Len(call.series.cells) = 4
    /\ RLt(Stat("min"), Stat("q25")) /\ RLt(Stat("q25"), Stat("q50"))
    /\ RLt(Stat("q50"), Stat("q75")) /\ RLt(Stat("q75"), Stat("max"))

\* the number of non-missing values of the field analysed
NonMissingCount == Len(SelectSeq(call.series.cells, LAMBDA c : c.t # "na"))

\* the sum, over the values a field can hold, of the square of the number of
\* cells that hold the value
SquaredCounts ==
    Only({ SumSeq([i \in 1..Len(held) |->
                      Cardinality({j \in 1..Len(held) : held[j] = held[i]})]) :
           held \in {SelectSeq(call.series.cells, LAMBDA c : c.t # "na")} })

(* C8, as claimed: for every categorical field the concentration_risk is   *)
(* in the interval (0, 1] and equals the sum over all distinct non-missing *)
(* values, not only the top-N, of (count / number of non-missing values)   *)
(* squared.                                                                *)
C8_ConcentrationRiskInUnitInterval ==
    (call.fn = "analyze_categorical_field") =>
        LET risk == Get(result.val, "concentration_risk")
        IN  /\ RLt(Flt(0, 1), risk) /\ RLeq(risk, Flt(1, 1))
            /\ risk.n * NonMissingCount * NonMissingCount = SquaredCounts * risk.d

(* C8, amended: for every categorical field with at least one non-missing  *)
(* value the concentration_risk is in (0, 1] and equals the sum over all   *)
(* distinct non-missing values, not only the top-N, of (count / number of  *)
(* non-missing values) squared; for a field with no non-missing value it   *)
(* is 0.0.                                                                 *)
C8_ConcentrationRiskOfNonMissing ==
    (call.fn = "analyze_categorical_field") =>
        LET risk == Get(result.val, "concentration_risk")
        IN  IF NonMissingCount = 0 THEN risk = Flt(0, 1)
            ELSE /\ RLt(Flt(0, 1), risk) /\ RLeq(risk, Flt(1, 1))
                 /\ risk.n * NonMissingCount * NonMissingCount = SquaredCounts * risk.d

\* a field with a missing value and three distinct values, of which only
\* the most frequent is in the top-N
C8_Witness ==
    /\ call.fn = "analyze_categorical_field" /\ call.top_n = 1
    /\ NonMissingCount < Len(call.series.cells)
    /\ Get(result.val, "unique_count") = IntV(3)
    /\ Len(Get(result.val, "top_n").items) = 1
    /\ RLt(Get(result.val, "concentration_risk"), Flt(1, 2))

\* the entries of the top-N returned
TopN == Get(result.val, "top_n").items

\* the sum of the counts of the top-N, and 100 times the sum of its percents
TopCounts == SumSeq([i \in 1..Len(TopN) |-> Get(TopN[i], "count").n])

TopPercents100 == SumSeq([i \in 1..Len(TopN) |-> Get(TopN[i], "percent").n])

(* C9, as claimed: for every categorical field and every top_n the sum of  *)
(* the percents of the top-N entries, each count/total*100 rounded to 2    *)
(* decimals, is at most 100, and the sum of the counts of the top-N        *)
(* entries is at most the number of non-missing values of the field.       *)
C9_TopPercentsAtMost100 ==
    (call.fn = "analyze_categorical_field") =>
        /\ TopPercents100 <= 100 * 100
        /\ TopCounts <= NonMissingCount

(* C9, amended: for every categorical field and every top_n the sum of the *)
(* counts of the top-N entries is at most the number of non-missing values *)
(* of the field; each percent is within half a hundredth of                *)
(* count/total*100, of which it is the rounding to 2 decimals, so that the *)
(* sum of the percents is at most 100 plus half a hundredth for each entry *)
(* of the top-N.                                                           *)
C9_TopPercentsWithinRounding ==
    (call.fn = "analyze_categorical_field") =>
        /\ TopCounts <= NonMissingCount
        /\ \A i \in 1..Len(TopN) :
              /\ Get(TopN[i], "percent").d = 100
              /\ 2 * Abs(Get(TopN[i], "percent").n * NonMissingCount
                         - Get(TopN[i], "count").n * 100 * 100) <= NonMissingCount
        /\ 2 * TopPercents100 <= 2 * 100 * 100 + Len(TopN)

\* a field whose percents add up to more than 100: 16.67 + 16.67 + 66.67
C9_Witness ==
    /\ call.fn = "analyze_categorical_field"
    /\ Len(TopN) = 3 /\ TopCounts = NonMissingCount
    /\ TopPercents100 > 100 * 100

\* the outliers reported by the call
OutliersOf ==
    IF call.fn = "analyze_numeric_field" THEN Get(result.val, "outliers") ELSE result.val

\* the positions kept of the cells that a method flags, given the number n,
\* the sum and the quartiles (times 4) of the values at the positions kept
\* and M2, the sum of the squares of n times their deviations from the mean:
\* |x - mean| over the population standard deviation is above the threshold
\* t (or is t itself and not 0, when the floats round it past t), or x is
\* outside [q1 - t*iqr, q3 + t*iqr]
FlaggedAmong(cells, kept, method, t, n, total, M2, q1, q3) ==
    SelectSeq(kept,
              LAMBDA k :
                  IF method = "zscore"
                  THEN /\ M2 # 0
                       /\ \/ n * (n * cells[k].n - total) * (n * cells[k].n - total) * t.d * t.d
                                 > t.n * t.n * M2
                          \/ /\ n * (n * cells[k].n - total) * (n * cells[k].n - total) * t.d * t.d
                                    = t.n * t.n * M2
                             /\ n * cells[k].n # total
                             /\ build.rounding = "past_the_threshold"
                  ELSE \/ 4 * cells[k].n * t.d < q1 * t.d - t.n * (q3 - q1)
                       \/ 4 * cells[k].n * t.d > q3 * t.d + t.n * (q3 - q1))

FlaggedOf(cells, kept, method, t, xs, ascending) ==
    FlaggedAmong(cells, kept, method, t, Len(xs), SumSeq(xs),
                 SumSeq([j \in 1..Len(xs) |->
                            (Len(xs) * xs[j] - SumSeq(xs)) * (Len(xs) * xs[j] - SumSeq(xs))]),
                 Quantile4(ascending, 1), Quantile4(ascending, 3))

ValuesKept(cells, kept) == [j \in 1..Len(kept) |-> cells[kept[j]].n]

\* the positions in call.series of the non-missing values that the method of
\* the call flags
FlaggedPositions ==
    LET cells == call.series.cells
        kept == SelectSeq([k \in 1..Len(cells) |-> k], LAMBDA k : cells[k].t # "na")
    IN  FlaggedOf(cells, kept, call.method, call.threshold,
                  ValuesKept(cells, kept), SortAsc(ValuesKept(cells, kept)))

\* the report counts the positions flagged and lists the labels and the
\* values of the first 100 of them, in their order
ReportsFlagged(report, series, flagged) ==
    /\ Get(report, "count") = IntV(Len(flagged))
    /\ Get(report, "indices").items =
          [i \in 1..Min2(Len(flagged), 100) |-> IntV(series.index[flagged[i]])]
    /\ Get(report, "values").items =
          [i \in 1..Min2(Len(flagged), 100) |-> Flt(series.cells[flagged[i]].n, 1)]

(* C10: for both outlier methods every reported outlier index is the       *)
(* position in the original dataset of a record whose value for the field  *)
(* is non-missing and flagged; the indices list holds the first            *)
(* min(count, 100) flagged positions in dataset order, and values[i] is    *)
(* the field value of the record at indices[i].                            *)
C10_OutlierIndicesAreDatasetPositions ==
    (/\ call.fn \in {"analyze_numeric_field", "_detect_outliers"}
     /\ call.method \in {"zscore", "iqr"}
     /\ HasKey(OutliersOf, "indices")) =>
        /\ call.fn = "analyze_numeric_field" =>
              \A k \in 1..Len(call.series.cells) : call.series.index[k] = k - 1
        /\ ReportsFlagged(OutliersOf, call.series, FlaggedPositions)

\* more than 100 values flagged, in a field whose records are not all
\* present: the positions in the dataset are not the positions among the
\* values
C10_Witness ==
    /\ call.fn = "_detect_outliers" /\ call.method = "iqr"
    /\ Get(OutliersOf, "count").n > 100
    /\ Len(Get(OutliersOf, "indices").items) = 100
    /\ Get(OutliersOf, "indices").items[100].n > 200


-----------------------------------------------------------------------------
\* the non-missing numbers of the field of the call, in dataset order
PresentNumbers ==
    LET present == SelectSeq(call.series.cells, LAMBDA c : c.t # "na")
    IN  [i \in 1..Len(present) |-> present[i].n]

\* the r-th smallest of xs: fewer than r values are below it and at least r
\* are not above it
OrderStatistic(xs, r) ==
    CHOOSE v \in {xs[i] : i \in 1..Len(xs)} :
        /\ Cardinality({i \in 1..Len(xs) : xs[i] < v}) < r
        /\ Cardinality({i \in 1..Len(xs) : xs[i] <= v}) >= r

\* 4 times the value at position p * (N - 1) for p = k / 4, interpolated
\* linearly between the order statistics on either side of the position
Interpolated4(xs, k) ==
    LET h    == k * (Len(xs) - 1)
        low  == OrderStatistic(xs, h \div 4 + 1)
        high == OrderStatistic(xs, Min2(h \div 4 + 2, Len(xs)))
    IN  (4 - (h % 4)) * low + (h % 4) * high

\* a finite float that equals the rational num / den
IsRational(x, num, den) == x.kind = "float" /\ x.s = "" /\ x.rt = 1 /\ x.n * den = num * x.d

\* a finite float that equals the square root of num / den
IsRootOf(x, num, den) == x.kind = "float" /\ x.s = "" /\ x.rt = 2 /\ x.n * den = num * x.d

(* C11: analyze_numeric_field reports count = the number of non-missing    *)
(* values, mean = their arithmetic mean, std = the sample standard         *)
(* deviation with the denominator N - 1 (no number for a single value),    *)
(* and q25, q50, q75 by linear interpolation between the order statistics  *)
(* at position p * (N - 1); for the values 10, 20, 30 it reports count 3,  *)
(* mean 20, median 20, min 10, max 30, std 10, q25 15, q50 20, q75 25.     *)
C11_NumericStatsAreTheTextbookOnes ==
    (call.fn = "analyze_numeric_field" /\ PresentNumbers # <<>>) =>
        LET xs == PresentNumbers
            N  == Len(xs)
            S1 == SumSeq(xs)
            S2 == SumSeq([i \in 1..N |-> xs[i] * xs[i]])
        IN  /\ ~Raised(result)
            /\ Stat("count") = IntV(N)
            /\ IsRational(Stat("mean"), S1, N)
            /\ IF N = 1 THEN IsNaN(Stat("std"))
               ELSE IsRootOf(Stat("std"), N * S2 - S1 * S1, N * (N - 1))
            /\ IsRational(Stat("q25"), Interpolated4(xs, 1), 4)
            /\ IsRational(Stat("q50"), Interpolated4(xs, 2), 4)
            /\ IsRational(Stat("q75"), Interpolated4(xs, 3), 4)
            /\ call.series \in ExampleColumns =>
                  /\ Stat("count") = IntV(3)
                  /\ IsRational(Stat("mean"), 20, 1)
                  /\ IsRational(Stat("median"), 20, 1)
                  /\ IsRational(Stat("min"), 10, 1)
                  /\ IsRational(Stat("max"), 30, 1)
                  /\ IsRootOf(Stat("std"), 100, 1)
                  /\ IsRational(Stat("q25"), 15, 1)
                  /\ IsRational(Stat("q50"), 20, 1)
                  /\ IsRational(Stat("q75"), 25, 1)

\* the values 10, 20, 30 have been analysed
C11_Witness ==
    /\ call.fn = "analyze_numeric_field"
    /\ PresentNumbers = <<10, 20, 30>>
    /\ Stat("count") = IntV(3)

\* four values, one missing record, a quartile strictly between two values
C11_WitnessInterpolated ==
    /\ call.fn = "analyze_numeric_field"
    /\ Len(call.series.cells) = 4 /\ Len(PresentNumbers) = 3
    /\ Stat("q25").n % Stat("q25").d # 0


-----------------------------------------------------------------------------
\* analyze_numeric_field was called on a field with no non-missing value
NothingPresent == call.fn = "analyze_numeric_field" /\ PresentNumbers = <<>>

\* the statistics that the sentinel fills with 0.0
ZeroFilled == <<"mean", "median", "std", "min", "max", "q25", "q50", "q75">>

\* the count, the zero-filled statistics and the outliers of the sentinel
IsSentinel ==
    /\ ~Raised(result)
    /\ result.val.keys = NumericStatsKeys
    /\ Stat("count") = IntV(0)
    /\ \A i \in 1..Len(ZeroFilled) : Stat(ZeroFilled[i]) = Flt(0, 1)
    /\ Stat("outliers") = Dict(<<"count">>, <<IntV(0)>>)

(* C12 as stated: for a numeric field with no non-missing values           *)
(* analyze_numeric_field returns count = 0, every statistic (mean, median, *)
(* std, min, max, q25, q50, q75, skewness, kurtosis) equal to 0.0, and     *)
(* outliers exactly {count: 0}.                                            *)
C12_SentinelIsAllZero ==
    NothingPresent =>
        /\ IsSentinel
        /\ Stat("skewness") = Flt(0, 1)
        /\ Stat("kurtosis") = Flt(0, 1)

(* C12 amended: for a numeric field with no non-missing values             *)
(* analyze_numeric_field returns count = 0, mean, median, std, min, max,   *)
(* q25, q50 and q75 equal to 0.0, skewness and kurtosis None, and outliers *)
(* exactly {count: 0}.                                                     *)
C12_SentinelLeavesShapeUnset ==
    NothingPresent =>
        /\ IsSentinel
        /\ Stat("skewness") = NoneV
        /\ Stat("kurtosis") = NoneV

\* a field of three records, each missing the value, has been analysed
C12_Witness ==
    /\ NothingPresent
    /\ Len(call.series.cells) = 3
    /\ Stat("count") = IntV(0)


-----------------------------------------------------------------------------
\* the table and the numeric_fields of the call
CallFrame == DataFrame(call.request.data)

\* the columns of corr_matrix: the numeric_fields whose column is numeric
CorrelatedColumns ==
    SelectSeq(call.request.schema.numeric,
              LAMBDA f : /\ InSeq(f, CallFrame.columns)
                         /\ CallFrame.col[f].dtype \in {"int64", "float64"})

\* the pearson map that compute_correlations returned
Pearson == Get(result.val, "pearson")

\* the complete rows of two columns determine a coefficient: there are two
\* such rows that differ in the one column and two that differ in the other
Varies(f, g) ==
    LET a == CallFrame.col[f].cells
        b == CallFrame.col[g].cells
        complete == {k \in 1..Len(a) : a[k].t = "num" /\ b[k].t = "num"}
    IN  /\ \E k, m \in complete : a[k].n # a[m].n
        /\ \E k, m \in complete : b[k].n # b[m].n

(* C13: the pearson map that compute_correlations produces holds each      *)
(* unordered pair of distinct numeric fields at most once, only as the     *)
(* pair in column order and never as its reverse, holds no entry pairing   *)
(* a field with itself, and holds no entry whose coefficient is NaN.       *)
C13_PearsonHoldsEachPairOnce ==
    (call.fn = "compute_correlations" /\ ~Raised(result)) =>
        LET cols == CorrelatedColumns
        IN  /\ \A k, m \in 1..Len(Pearson.keys) : Pearson.keys[k] = Pearson.keys[m] => k = m
            /\ \A k \in 1..Len(Pearson.keys) :
                  /\ ~IsNaN(Pearson.items[k])
                  /\ \E i, j \in 1..Len(cols) :
                        /\ i < j /\ cols[i] # cols[j]
                        /\ Pearson.keys[k] = cols[i] \o "_" \o cols[j]
                        /\ Varies(cols[i], cols[j])
            /\ \A i, j \in 1..Len(cols) :
                  i <= j => ~HasKey(Pearson, cols[j] \o "_" \o cols[i])

\* three numeric columns named against the order of the table: two of them
\* have a coefficient, the third is constant
C13_Witness ==
    /\ call.fn = "compute_correlations" /\ ~Raised(result)
    /\ CorrelatedColumns = <<"value", "score", "amount">>
    /\ Pearson.keys = <<"score_amount">>


-----------------------------------------------------------------------------
\* the elements of a sequence
Range(s) == {s[i] : i \in 1..Len(s)}

\* the anomalies that _detect_anomalies returned
Anomalies == result.val.items

\* the anomalies of a type about a field
AnomaliesAbout(type, f) ==
    SelectSeq(Anomalies, LAMBDA a : Get(a, "type") = Str(type) /\ Get(a, "field") = Str(f))

\* the non-missing cells of the column f of the table of the call
PresentIn(f) == SelectSeq(CallFrame.col[f].cells, LAMBDA c : c.t # "na")

\* the sum over the distinct cells of the square of their count: every cell
\* adds the count of the cells equal to it
SumOfSquaredCounts(cells) ==
    SumSeq([i \in 1..Len(cells) |-> Cardinality({j \in 1..Len(cells) : cells[j] = cells[i]})])

\* the anomalies about the categorical field f are as its concentration, the
\* sum of the squared shares of its non-missing values squares / n^2, demands
ConcentrationReported(f, n, squares) ==
    LET about == AnomaliesAbout("concentration_risk", f)
    IN  IF n > 0 /\ 4 * squares > n * n
        THEN /\ Len(about) = 1
             /\ Get(about[1], "severity") = Str(IF 2 * squares > n * n THEN "high" ELSE "medium")
             /\ Get(about[1], "affected_records") = List(<<>>)
             /\ Get(Get(about[1], "details"), "hhi") = Flt(squares, n * n)
        ELSE about = <<>>

NineAOneB ==
    <<StrCell("A"), StrCell("A"), StrCell("A"), StrCell("A"), StrCell("A"),
      StrCell("A"), StrCell("A"), StrCell("A"), StrCell("A"), StrCell("B")>>

(* C14: _detect_anomalies emits exactly one concentration_risk anomaly for *)
(* each categorical field whose concentration_risk is above 0.25 and none  *)
(* for any other field; the severity is high iff the concentration_risk is *)
(* above 0.5 and medium otherwise, and affected_records is empty.  A field *)
(* of nine A and one B has concentration_risk 0.82 and a high anomaly.     *)
C14_OneConcentrationAnomalyPerConcentratedField ==
    (call.fn = "_detect_anomalies" /\ ~Raised(result)) =>
        /\ \A a \in Range(Anomalies) :
              Get(a, "type") = Str("concentration_risk") =>
                  \E f \in Range(call.request.schema.categorical) : Get(a, "field") = Str(f)
        /\ \A f \in Range(call.request.schema.categorical) :
              IF InSeq(f, CallFrame.columns)
              THEN \A cells \in {PresentIn(f)} :
                       /\ ConcentrationReported(f, Len(cells), SumOfSquaredCounts(cells))
                       /\ cells = NineAOneB =>
                              /\ SumOfSquaredCounts(cells) = 82 /\ Len(cells) * Len(cells) = 100
                              /\ Get(AnomaliesAbout("concentration_risk", f)[1], "severity") = Str("high")
              ELSE AnomaliesAbout("concentration_risk", f) = <<>>

\* the field of nine A and one B has its high anomaly, and the field of four
\* values, two of them a little more frequent, a medium one
C14_Witness ==
    /\ call.fn = "_detect_anomalies" /\ ~Raised(result)
    /\ PresentIn("value") = NineAOneB
    /\ Len(AnomaliesAbout("concentration_risk", "value")) = 1
    /\ Get(AnomaliesAbout("concentration_risk", "value")[1], "severity") = Str("high")
    /\ Len(AnomaliesAbout("concentration_risk", "_id")) = 1
    /\ Get(AnomaliesAbout("concentration_risk", "_id")[1], "severity") = Str("medium")


-----------------------------------------------------------------------------
\* the table that infer_schema was called on
SchemaFrame == with_datetime(CallFrame, call.method)

SchemaLists == {"numeric", "categorical", "temporal"}

\* the names in a list of the schema that infer_schema returned
Inferred(list) == Get(result.val, list).items

\* the places of the name c in a list
PlacesIn(list, c) == {i \in 1..Len(Inferred(list)) : Inferred(list)[i] = Str(c)}

\* the first n non-missing cells of a column
FirstPresent(cells, n) ==
    LET present == {i \in 1..Len(cells) : cells[i].t # "na"}
    IN  {cells[i] : i \in {k \in present : Cardinality({j \in present : j < k}) < n}}

\* the list the precedence of the rules gives a column: temporal for a
\* timestamp type and for strings whose first 10 non-missing values are dates,
\* then numeric for a numeric type, then categorical
ListFor(series) ==
    IF \/ series.dtype = "datetime64"
       \/ /\ series.dtype = "object"
          /\ FirstPresent(series.cells, 10) # {}
          /\ \A c \in FirstPresent(series.cells, 10) : c.t = "str" /\ IsDateText(c.s)
    THEN "temporal"
    ELSE IF series.dtype \in {"int64", "float64"} THEN "numeric"
    ELSE "categorical"

(* C15: infer_schema places every column whose name does not start with an *)
(* underscore in exactly one of the three lists, the list that the         *)
(* precedence temporal, numeric, categorical gives it, and an underscore   *)
(* column in none; temporal is a timestamp type, or strings with at least  *)
(* one non-missing value whose first 10 non-missing values all parse as    *)
(* dates, whatever comes after the 10th.                                   *)
C15_EveryColumnInTheListOfItsKind ==
    call.fn = "infer_schema" =>
        /\ \A list \in SchemaLists : \A i \in 1..Len(Inferred(list)) :
              \E c \in Range(SchemaFrame.columns) : Inferred(list)[i] = Str(c)
        /\ \A c \in Range(SchemaFrame.columns) : \A list \in SchemaLists :
              Cardinality(PlacesIn(list, c))
                  = IF SubSeq(c, 1, 1) # "_" /\ list = ListFor(SchemaFrame.col[c]) THEN 1 ELSE 0

\* a column of dates whose 11th value is no date is temporal, a column whose
\* first value is no date categorical, a column of numbers numeric and the
\* underscore column of dates in no list
C15_Witness ==
    /\ call.fn = "infer_schema"
    /\ Len(call.request.data) = 12
    /\ call.request.data[11]["amount"] = StrCell("A")
    /\ call.request.data[1]["value"] = StrCell("A")
    /\ Inferred("temporal") = <<Str("amount")>>
    /\ Inferred("numeric") = <<Str("score")>>
    /\ Inferred("categorical") = <<Str("value")>>
    /\ InSeq("_id", SchemaFrame.columns)

\* a column of a timestamp type is temporal
C15_WitnessTimestampType ==
    /\ call.fn = "infer_schema"
    /\ InSeq("amount", SchemaFrame.columns)
    /\ SchemaFrame.col["amount"].dtype = "datetime64"
    /\ Inferred("temporal") = <<Str("amount")>>


-----------------------------------------------------------------------------
\* a / b = c / d, for b, d > 0, by the fractions in lowest terms
SameRatio(a, b, c, d) ==
    /\ a \div Gcd(Abs(a), b) = c \div Gcd(Abs(c), d)
    /\ b \div Gcd(Abs(a), b) = d \div Gcd(Abs(c), d)

\* the places among the non-missing numbers xs whose score, |x - mean| over
\* the square root of the mean squared deviation, is above t:
\* (N * x - sum)^2 / (sum of the (N * x - sum)^2 / N) > t^2, and the places
\* whose score is t itself and not 0 when the floats round it past t
ScoredAbove(xs, t) ==
    LET n == Len(xs)
        total == SumSeq(xs)
        squares == SumSeq([j \in 1..n |-> (n * xs[j] - total) * (n * xs[j] - total)])
        score(i) == n * (n * xs[i] - total) * (n * xs[i] - total) * t.d * t.d
    IN  {i \in 1..n : /\ squares # 0
                      /\ \/ score(i) > t.n * t.n * squares
                         \/ /\ score(i) = t.n * t.n * squares /\ n * xs[i] # total
                            /\ build.rounding = "past_the_threshold"}

\* x is the largest score of the numbers xs, NaN when they are all equal
IsLargestScore(x, xs) ==
    LET n == Len(xs)
        total == SumSeq(xs)
        squares == SumSeq([j \in 1..n |-> (n * xs[j] - total) * (n * xs[j] - total)])
        far == CHOOSE i \in 1..n : \A j \in 1..n : Abs(n * xs[j] - total) <= Abs(n * xs[i] - total)
    IN  IF squares = 0 THEN IsNaN(x)
        ELSE /\ x.kind = "float" /\ x.s = "" /\ x.rt = 2
             /\ SameRatio(x.n, x.d, n * (n * xs[far] - total) * (n * xs[far] - total), squares)

\* the labels of the non-missing values of the field of the call, in order
PresentLabels ==
    LET kept == SelectSeq([k \in 1..Len(call.series.cells) |-> k],
                          LAMBDA k : call.series.cells[k].t # "na")
    IN  [i \in 1..Len(kept) |-> call.series.index[kept[i]]]

\* the labels that the report of the call lists
ReportedLabels ==
    {Get(OutliersOf, "indices").items[i].n : i \in 1..Len(Get(OutliersOf, "indices").items)}

-----------------------------------------------------------------------------
\* 4 * t.d times the bounds q25 - t * (q75 - q25) and q75 + t * (q75 - q25) of
\* the numbers xs, for the threshold t = t.n / t.d
LowerBound4(xs, t) ==
    Interpolated4(xs, 1) * t.d - t.n * (Interpolated4(xs, 3) - Interpolated4(xs, 1))

UpperBound4(xs, t) ==
    Interpolated4(xs, 3) * t.d + t.n * (Interpolated4(xs, 3) - Interpolated4(xs, 1))

\* the places among the numbers xs of those strictly outside the bounds
OutsideBounds(xs, t, lower4, upper4) ==
    {i \in 1..Len(xs) : 4 * t.d * xs[i] < lower4 \/ 4 * t.d * xs[i] > upper4}

\* the bounds that the report of the call gives
Bounds == Get(OutliersOf, "bounds")

(* C17: with outlier_method iqr the reported bounds are                     *)
(* lower = q25 - threshold * (q75 - q25) and                               *)
(* upper = q75 + threshold * (q75 - q25), and a non-missing value is       *)
(* flagged iff it is strictly below lower or strictly above upper; a value *)
(* equal to a bound is not flagged, so a field whose non-missing values    *)
(* are all equal has no outliers.                                          *)
C17_IqrFlagsOutsideTheBounds ==
    (/\ call.fn \in {"analyze_numeric_field", "_detect_outliers"}
     /\ call.method = "iqr" /\ ~Raised(result)
     /\ PresentNumbers # <<>>) =>
        \A xs \in {PresentNumbers \o <<>>} :
        \A lower4 \in {LowerBound4(xs, call.threshold)}, upper4 \in {UpperBound4(xs, call.threshold)} :
        \A outside \in {OutsideBounds(xs, call.threshold, lower4, upper4)} :
            /\ IsRational(Get(Bounds, "lower"), lower4, 4 * call.threshold.d)
            /\ IsRational(Get(Bounds, "upper"), upper4, 4 * call.threshold.d)
            /\ call.fn = "analyze_numeric_field" =>
                  /\ IsRational(Stat("q25"), Interpolated4(xs, 1), 4)
                  /\ IsRational(Stat("q75"), Interpolated4(xs, 3), 4)
            /\ Get(OutliersOf, "count") = IntV(Cardinality(outside))
            /\ ReportedLabels \subseteq {PresentLabels[i] : i \in outside}
            /\ Cardinality(outside) <= 100 => ReportedLabels = {PresentLabels[i] : i \in outside}
            /\ (\A i \in 1..Len(xs) : xs[i] = xs[1]) => Get(OutliersOf, "count") = IntV(0)

\* a value above the upper bound is flagged and a value equal to the upper
\* bound is not
C17_Witness ==
    /\ call.fn = "analyze_numeric_field" /\ call.method = "iqr" /\ ~Raised(result)
    /\ PresentNumbers # <<>>
    /\ Get(OutliersOf, "count").n > 0
    /\ \E i, j \in 1..Len(PresentNumbers) :
          /\ 4 * call.threshold.d * PresentNumbers[i] = UpperBound4(PresentNumbers, call.threshold)
          /\ PresentLabels[i] \notin ReportedLabels
          /\ 4 * call.threshold.d * PresentNumbers[j] > UpperBound4(PresentNumbers, call.threshold)
          /\ PresentLabels[j] \in ReportedLabels

\* several equal values, each of them on both bounds, and no outlier
C17_WitnessAllEqual ==
    /\ call.fn = "analyze_numeric_field" /\ call.method = "iqr" /\ ~Raised(result)
    /\ Len(PresentNumbers) > 1
    /\ \A i \in 1..Len(PresentNumbers) : PresentNumbers[i] = PresentNumbers[1]
    /\ Get(Bounds, "lower") = Get(Bounds, "upper")
    /\ Get(OutliersOf, "count") = IntV(0)


-----------------------------------------------------------------------------
\* the places in the dataset of the non-missing numbers of the column f
PresentPlaces(f) ==
    Only({ SelectSeq([k \in 1..Len(cells) |-> k], LAMBDA k : cells[k].t = "num") :
           cells \in {CallFrame.col[f].cells} })

\* the places in the dataset of the outliers of the numbers xs that are at
\* the places kept, by the method and the threshold of the options
OutlierPlaces(kept, xs, options) ==
    LET t == options.outlier_threshold
        among == IF xs = <<>> THEN {}
                 ELSE IF options.outlier_method = "zscore" THEN ScoredAbove(xs, t)
                 ELSE IF options.outlier_method = "iqr"
                 THEN OutsideBounds(xs, t, LowerBound4(xs, t), UpperBound4(xs, t))
                 ELSE {}
    IN  Only({ Only({ [j \in 1..Len(chosen) |-> kept[chosen[j]]] \o <<>> :
                      chosen \in {SelectSeq([i \in 1..Len(kept) |-> i],
                                            LAMBDA i : i \in found)} }) :
               found \in {among} })

\* the anomalies about the numeric field f are as its outliers, at the places
\* given of a dataset of the given number of records, demand
OutliersReported(f, places, records) ==
    LET about == AnomaliesAbout("statistical_outlier", f)
    IN  IF Len(places) > 0
        THEN /\ Len(about) = 1
             /\ Get(about[1], "severity")
                   = Str(IF 10 * Len(places) > records THEN "high" ELSE "medium")
             /\ Get(about[1], "affected_records").items
                   = [i \in 1..Min2(Len(places), 100) |-> IntV(places[i] - 1)]
        ELSE about = <<>>

(* C18: _detect_anomalies emits exactly one statistical_outlier anomaly for *)
(* each numeric field whose outlier count is above 0 and none for any      *)
(* other field; the severity is high iff the outlier count is strictly     *)
(* above 10% of the number of records of the dataset, the records where    *)
(* the field is missing counted, and medium otherwise; affected_records    *)
(* holds the first 100 outlier indices of the field.                       *)
C18_OneOutlierAnomalyPerFieldWithOutliers ==
    (call.fn = "_detect_anomalies" /\ ~Raised(result)) =>
        /\ \A a \in Range(Anomalies) :
              Get(a, "type") = Str("statistical_outlier") =>
                  \E f \in Range(call.request.schema.numeric) : Get(a, "field") = Str(f)
        /\ \A f \in Range(call.request.schema.numeric) :
              IF InSeq(f, CallFrame.columns)
              THEN \A kept \in {PresentPlaces(f)}, cells \in {CallFrame.col[f].cells} :
                   \A xs \in {[i \in 1..Len(kept) |-> cells[kept[i]].n] \o <<>>} :
                       OutliersReported(f, OutlierPlaces(kept, xs, call.request.options),
                                        Len(call.request.data))
              ELSE AnomaliesAbout("statistical_outlier", f) = <<>>

\* 202 outliers among 404 records: a high anomaly with the first 100 indices
C18_Witness ==
    /\ call.fn = "_detect_anomalies" /\ ~Raised(result)
    /\ Len(call.request.data) > 400
    /\ Len(AnomaliesAbout("statistical_outlier", "amount")) = 1
    /\ Get(AnomaliesAbout("statistical_outlier", "amount")[1], "severity") = Str("high")
    /\ Len(Get(AnomaliesAbout("statistical_outlier", "amount")[1], "affected_records").items) = 100
    /\ AnomaliesAbout("statistical_outlier", "score") = <<>>

\* one outlier among nine values of ten records, exactly 10% of the records
\* and more than 10% of the values: a medium anomaly
C18_WitnessTenPercent ==
    /\ call.fn = "_detect_anomalies" /\ ~Raised(result)
    /\ Len(call.request.data) = 10
    /\ Len(PresentPlaces("amount")) = 9
    /\ Len(AnomaliesAbout("statistical_outlier", "amount")) = 1
    /\ Get(AnomaliesAbout("statistical_outlier", "amount")[1], "severity") = Str("medium")
    /\ Len(Get(AnomaliesAbout("statistical_outlier", "amount")[1], "affected_records").items) = 1


-----------------------------------------------------------------------------
\* the timestamps of the field of the call that parse, in dataset order
ParsedStamps ==
    LET texts == SelectSeq(call.series.cells, LAMBDA c : c.t = "str" /\ IsDateText(c.s))
    IN  [i \in 1..Len(texts) |-> ParseDateText(texts[i].s)] \o <<>>

\* the numbers of a set in ascending order
Ascending(S) ==
    [r \in 1..Cardinality(S) |-> CHOOSE v \in S : Cardinality({w \in S : w < v}) = r - 1] \o <<>>

\* the distribution that analyze_temporal_field returned
Distribution == Get(result.val, "distribution")

\* buckets by hour of day, the hours ascending, each with the number of the
\* timestamps of that hour
IsHourly(dist, stamps) ==
    LET hours == Ascending({stamps[i].sec \div 3600 : i \in 1..Len(stamps)})
    IN  /\ Get(dist, "type") = Str("hourly")
        /\ Get(dist, "data").keys = [r \in 1..Len(hours) |-> ToString(hours[r])]
        /\ Get(dist, "data").items =
              [r \in 1..Len(hours) |->
                  IntV(Cardinality({i \in 1..Len(stamps) : stamps[i].sec \div 3600 = hours[r]}))]

\* buckets by calendar date, the first 100 of the dates ascending, each with
\* the number of the timestamps of that date
IsDaily(dist, stamps) ==
    LET days == Ascending({stamps[i].day : i \in 1..Len(stamps)})
    IN  /\ Get(dist, "type") = Str("daily")
        /\ Get(dist, "data").keys = [r \in 1..Min2(Len(days), 100) |-> DateText(days[r])]
        /\ Get(dist, "data").items =
              [r \in 1..Min2(Len(days), 100) |->
                  IntV(Cardinality({i \in 1..Len(stamps) : stamps[i].day = days[r]}))]

(* C19: the temporal distribution is hourly, with buckets by hour of day,   *)
(* whenever a parsed timestamp of the field has a hour, a minute or a      *)
(* second that is not zero; otherwise it is daily, by calendar date,       *)
(* ascending and limited to the first 100 distinct dates.                  *)
C19_HourlyWhenAnyTimeOfDay ==
    (call.fn = "analyze_temporal_field" /\ ParsedStamps # <<>>) =>
        \A stamps \in {ParsedStamps} :
            IF \E i \in 1..Len(stamps) : stamps[i].sec # 0
            THEN IsHourly(Distribution, stamps)
            ELSE IsDaily(Distribution, stamps)


-----------------------------------------------------------------------------
\* the seconds from the timestamp a to the timestamp b
SecondsBetween(a, b) == (b.day - a.day) * 86400 + (b.sec - a.sec)

\* the seconds between the consecutive timestamps in ascending order
ConsecutiveSeconds(stamps) ==
    LET place == [i \in 1..Len(stamps) |->
                     Cardinality({j \in 1..Len(stamps) :
                                     \/ SecondsBetween(stamps[j], stamps[i]) > 0
                                     \/ stamps[j] = stamps[i] /\ j < i})] \o <<>>
        ascending == [r \in 1..Len(stamps) |->
                         stamps[CHOOSE i \in 1..Len(stamps) : place[i] = r - 1]] \o <<>>
    IN  [r \in 1..(Len(stamps) - 1) |-> SecondsBetween(ascending[r], ascending[r + 1])] \o <<>>

\* the gaps that analyze_temporal_field returned
Gaps == Get(result.val, "gaps")

\* x is the mean of count gaps of total seconds in days, to the hundredth
IsMeanInDays(x, total, count) ==
    /\ x.kind \in {"int", "float"} /\ x.s = "" /\ x.rt = 1
    /\ 200 * Abs(x.n * count * 86400 - total * x.d) <= x.d * count * 86400

(* C20: in _analyze_gaps a gap is a difference between consecutive          *)
(* timestamps in ascending order that is strictly above 1 day; count is    *)
(* the number of the gaps, max_gap_days the largest gap in days and        *)
(* avg_gap_days the average in days of the gaps only, which a difference   *)
(* of 1 day or less does not enter; with fewer than 2 timestamps or no gap *)
(* the result is exactly {count: 0, max_gap_days: 0}.                      *)
C20_GapsAreCountedAndAveraged ==
    (call.fn = "analyze_temporal_field" /\ ParsedStamps # <<>>) =>
        \A diffs \in {ConsecutiveSeconds(ParsedStamps)} :
        \A gaps \in {SelectSeq(diffs, LAMBDA d : d > 86400)} :
            IF gaps = <<>>
            THEN Gaps = Dict(<<"count", "max_gap_days">>, <<IntV(0), IntV(0)>>)
            ELSE /\ Get(Gaps, "count") = IntV(Len(gaps))
                 /\ \E i \in 1..Len(gaps) :
                       /\ \A j \in 1..Len(gaps) : gaps[j] <= gaps[i]
                       /\ Get(Gaps, "max_gap_days") = IntV(gaps[i] \div 86400)
                 /\ IsMeanInDays(Get(Gaps, "avg_gap_days"), SumSeq(gaps), Len(gaps))


-----------------------------------------------------------------------------
(* C21 *)

\* the labels that rare_categories lists
RareListed == Get(result.val, "rare_categories").items

\* the number of the cells that hold the value whose text is label
CountOfLabel(cells, dtype, label) ==
    Cardinality({i \in 1..Len(cells) :
                    cells[i].t # "na" /\ Str(StrOfCell(cells[i], dtype)) = label})

\* the labels of the values that are fewer than 1% of the n present ones
RareLabels(cells, dtype, n) ==
    {Str(StrOfCell(cells[i], dtype)) :
        i \in {j \in 1..Len(cells) :
                  /\ cells[j].t # "na"
                  /\ 100 * Cardinality({k \in 1..Len(cells) : cells[k] = cells[j]}) < n}}

(* C21: rare_categories lists exactly the distinct values whose count is   *)
(* strictly below 1% of the number of non-missing values, in               *)
(* descending-frequency order, truncated to the first 50; a value whose    *)
(* count equals exactly 1% of the total is not rare. Every label listed is *)
(* of a rare value and is listed once, the counts of the labels listed     *)
(* never go up, there are as many as there are rare values up to 50, and   *)
(* no rare value left out is more frequent than one that is listed.        *)
C21_RareCategoriesAreBelowOnePercent ==
    (call.fn = "analyze_categorical_field") =>
        \A cells \in {call.series.cells}, listed \in {RareListed} :
          \A rare \in {RareLabels(cells, call.series.dtype, NonMissingCount)} :
            \A times \in {[l \in rare |-> CountOfLabel(cells, call.series.dtype, l)] @@ <<>>} :
                /\ Len(listed) = Min2(Cardinality(rare), RareCap)
                /\ \A i \in 1..Len(listed) : listed[i] \in rare
                /\ \A i, j \in 1..Len(listed) :
                      i < j => listed[i] # listed[j] /\ times[listed[i]] >= times[listed[j]]
                /\ \A l \in rare \ Range(listed) :
                      \A i \in 1..Len(listed) : times[l] <= times[listed[i]]

\* of 200 values one label is held twice, exactly 1%, and is not listed,
\* and one label is held once and is listed
C21_Witness ==
    /\ call.fn = "analyze_categorical_field"
    /\ NonMissingCount = 200
    /\ CountOfLabel(call.series.cells, call.series.dtype, Str("C")) = 2
    /\ RareListed = <<Str("B")>>

\* more than 50 rare values, the one left out less frequent than those listed
C21_WitnessCapped ==
    /\ call.fn = "analyze_categorical_field"
    /\ Len(RareListed) = RareCap
    /\ Cardinality(RareLabels(call.series.cells, call.series.dtype, NonMissingCount)) > RareCap + 1
    /\ \A i \in 1..Len(RareListed) :
          CountOfLabel(call.series.cells, call.series.dtype, RareListed[i]) = 2

\* two rare values, the more frequent listed first though it comes second
C21_WitnessFrequencyOrder ==
    /\ call.fn = "analyze_categorical_field"
    /\ RareListed = <<Str("C"), Str("B")>>
    /\ call.series.cells[1] = StrCell("B")


-----------------------------------------------------------------------------
(* C22 *)

\* the significant list that compute_correlations returned
Significant == Get(result.val, "significant").items

\* the pairs <<i, j>>, i < j, of the columns of corr_matrix in the order of
\* the double loop
PairsInOrder(n) ==
    [p \in 1..(n * n) |-> <<((p - 1) \div n) + 1, ((p - 1) % n) + 1>>]

\* |r| > hundredths / 100 of r squared, for a coefficient r whose square is
\* |r.n| / r.d
SquareAbove(r, hundredths) == 100 * Abs(r.n) > hundredths * r.d

\* the coefficient of the pair p of the columns cols of the table df
CoefficientOf(df, cols, p) == pearson_r(df.col[cols[p[1]]], df.col[cols[p[2]]])

\* the key of the pair p in the pearson map
KeyOf(cols, p) == cols[p[1]] \o "_" \o cols[p[2]]

\* the pairs p with their coefficient <<p, r>> that the double loop emits,
\* in its order: those of the upper triangle whose coefficient is not NaN
EmittedPairs(df, cols) ==
    Only({ SelectSeq([k \in 1..Len(all) |-> <<all[k], CoefficientOf(df, cols, all[k])>>] \o <<>>,
                     LAMBDA e : ~IsNaN(e[2])) :
           all \in {SelectSeq(PairsInOrder(Len(cols)), LAMBDA p : p[1] < p[2])} })

(* C22: the significant list of compute_correlations contains exactly the  *)
(* pairs of the pearson map whose |r| is strictly greater than 0.7, in the *)
(* same order as they are emitted, each with strength 'strong' iff         *)
(* |r| > 0.9 and 'moderate' otherwise; a pair with |r| exactly 0.7 is not  *)
(* listed and a pair with |r| exactly 0.9 is 'moderate'.  The pairs of the *)
(* map are those emitted into it: each has its key in the map, with its r  *)
(* unless a later pair has the same key.                                   *)
C22_SignificantAreThePairsAbove07 ==
    (call.fn = "compute_correlations" /\ ~Raised(result)) =>
        \A cols \in {CorrelatedColumns}, listed \in {Significant}, map \in {Pearson} :
          \A emitted \in {EmittedPairs(CallFrame, cols)} :
            \A above \in {SelectSeq(emitted, LAMBDA e : SquareAbove(e[2], 49))} :
              /\ \A k \in 1..Len(emitted) :
                    /\ HasKey(map, KeyOf(cols, emitted[k][1]))
                    /\ \/ \E m \in (k + 1)..Len(emitted) :
                              KeyOf(cols, emitted[m][1]) = KeyOf(cols, emitted[k][1])
                       \/ Get(map, KeyOf(cols, emitted[k][1])) = emitted[k][2]
              /\ Len(listed) = Len(above)
              /\ \A k \in 1..Len(listed) :
                    /\ listed[k].keys = <<"field1", "field2", "r", "strength">>
                    /\ Get(listed[k], "field1") = Str(cols[above[k][1][1]])
                    /\ Get(listed[k], "field2") = Str(cols[above[k][1][2]])
                    /\ Get(listed[k], "r") = above[k][2]
                    /\ Get(listed[k], "strength")
                           = Str(IF SquareAbove(above[k][2], 81) THEN "strong" ELSE "moderate")

\* three pairs are emitted: the first has |r| exactly 0.7 and is not listed,
\* the second has r exactly -0.9 and is the only one listed, as moderate
C22_Witness ==
    /\ call.fn = "compute_correlations" /\ ~Raised(result)
    /\ Len(Pearson.keys) = 3
    /\ 100 * Pearson.items[1].n = 49 * Pearson.items[1].d
    /\ 100 * Pearson.items[2].n = -81 * Pearson.items[2].d
    /\ Len(Significant) = 1
    /\ Get(Significant[1], "strength") = Str("moderate")
    /\ Get(Significant[1], "r") = Pearson.items[2]

\* three pairs are emitted and listed, the second as strong between two
\* moderate ones
C22_WitnessStrong ==
    /\ call.fn = "compute_correlations" /\ ~Raised(result)
    /\ Len(Pearson.keys) = 3 /\ Len(Significant) = 3
    /\ Get(Significant[1], "strength") = Str("moderate")
    /\ Get(Significant[2], "strength") = Str("strong")
    /\ Get(Significant[3], "strength") = Str("moderate")


-----------------------------------------------------------------------------
(* C23 *)

\* the charts, the numeric stats and the categorical stats of the card that
\* generate returned
ChartData == Get(result.val, "chart_data").items

NumericStats == Get(result.val, "numeric_stats")

CategoricalStats == Get(result.val, "categorical_stats")

\* the fields of the charts of a type, in the order of the charts
ChartFields(charts, type) ==
    Only({ [i \in 1..Len(of_type) |-> Get(of_type[i], "field").s] \o <<>> :
           of_type \in {SelectSeq(charts, LAMBDA c : Get(c, "type") = Str(type))} })

\* the place of a key in a map
PlaceOf(map, key) == CHOOSE i \in 1..Len(map.keys) : map.keys[i] = key

\* the fields are the keys given, each once
EachOnce(fields, keys) ==
    /\ Len(fields) = Cardinality(keys)
    /\ Range(fields) = keys

(* C23: when include_distributions is false chart_data is empty; when it   *)
(* is true chart_data holds one histogram for every numeric field with     *)
(* computed stats, ordered by descending std with ties in the order of the *)
(* numeric stats map, followed by one bar chart for every categorical      *)
(* field with a non-empty top_n, ordered by ascending unique_count, and no *)
(* bar chart for a field whose top_n is empty.                             *)
C23_ChartsFollowTheStats ==
    (call.fn = "generate" /\ ~Raised(result)) =>
        \A charts \in {ChartData}, numeric \in {NumericStats},
           categorical \in {CategoricalStats} :
            IF ~call.request.options.include_distributions THEN charts = <<>>
            ELSE \A histograms \in {ChartFields(charts, "histogram")},
                    bars \in {ChartFields(charts, "bar")} :
                   /\ Len(charts) = Len(histograms) + Len(bars)
                   /\ \A i \in 1..Len(charts) :
                         Get(charts[i], "type")
                             = Str(IF i <= Len(histograms) THEN "histogram" ELSE "bar")
                   /\ EachOnce(histograms, Range(numeric.keys))
                   /\ \A i, j \in 1..Len(histograms) :
                         i < j =>
                           \A a \in {Get(Get(numeric, histograms[i]), "std")},
                              b \in {Get(Get(numeric, histograms[j]), "std")} :
                               /\ ~KeyLt(a, b)
                               /\ (~KeyLt(b, a)) =>
                                     PlaceOf(numeric, histograms[i])
                                         < PlaceOf(numeric, histograms[j])
                   /\ EachOnce(bars, {f \in Range(categorical.keys) :
                                         Get(Get(categorical, f), "top_n").items # <<>>})
                   /\ \A i, j \in 1..Len(bars) :
                         i < j => Get(Get(categorical, bars[i]), "unique_count").n
                                      <= Get(Get(categorical, bars[j]), "unique_count").n


-----------------------------------------------------------------------------
(* C24 *)

\* the summary of the card that generate returned
Summary == Get(result.val, "summary")

\* the sum of the numbers that the records of the call hold under a key
SumUnder(key) ==
    SumSeq([i \in 1..Len(call.request.data) |->
               IF key \in DOMAIN call.request.data[i] /\ call.request.data[i][key].t = "num"
               THEN call.request.data[i][key].n ELSE 0])

\* the fields amount, notional and value that are a column of the dataset
\* and numeric in the schema: those are the fields of numeric_stats
Totalled(numeric) == {f \in {"amount", "notional", "value"} : HasKey(numeric, f)}

(* C24: summary.total_notional is present iff at least one of the fields   *)
(* 'amount', 'notional', 'value' is both a column of the dataset and       *)
(* classified numeric in the schema; when present it equals the sum of the *)
(* non-missing values of the first such field in the order amount,         *)
(* notional, value (a higher-priority name that exists but is not numeric  *)
(* is passed over).                                                        *)
C24_TotalNotionalOfTheFirstNumericField ==
    (call.fn = "generate" /\ ~Raised(result)) =>
        \A summary \in {Summary}, fields \in {Totalled(NumericStats)} :
            /\ HasKey(summary, "total_notional") <=> fields # {}
            /\ fields # {} =>
                  Get(summary, "total_notional")
                      = Flt(SumUnder(IF "amount" \in fields THEN "amount"
                                     ELSE IF "notional" \in fields THEN "notional"
                                     ELSE "value"), 1)

\* amount is a column of strings and is passed over, value and notional are
\* numeric and value is the earlier column: the total is the one of
\* notional, which has a missing value
C24_Witness ==
    /\ call.fn = "generate" /\ ~Raised(result)
    /\ CallFrame.columns = <<"amount", "value", "notional">>
    /\ Totalled(NumericStats) = {"notional", "value"}
    /\ Get(Summary, "total_notional") = Flt(2, 1)
    /\ SumUnder("value") = 4

\* no field of the three is numeric: the summary has no total
C24_WitnessAbsent ==
    /\ call.fn = "generate" /\ ~Raised(result)
    /\ NumericStats.keys = <<"score">>
    /\ ~HasKey(Summary, "total_notional")


-----------------------------------------------------------------------------
(* C25 *)

\* the fields that NumericStats declares as float, without a default
RequiredNumbers == <<"mean", "median", "std", "min", "max", "q25", "q50", "q75">>

\* a value that a field declared float accepts: an int or a float, not None
IsDeclaredFloat(x) == x.kind \in {"int", "float"}

(* C25: for every dataset, the sanitized value returned by analyze_dataset *)
(* still conforms to the declared DataCard response model: the             *)
(* NumericStats fields declared as required numbers (mean, median, std,    *)
(* min, max, q25, q50, q75) and CategoricalStats.concentration_risk always *)
(* hold a number, never the no-value marker; in particular this holds for  *)
(* a numeric field with exactly one non-missing value, whose N-1 sample    *)
(* standard deviation is undefined.                                        *)
C25_ResponseConformsToDataCard ==
    (Handled /\ response.status_code = 200) =>
        \A numeric \in {Get(response.body, "numeric_stats")},
           categorical \in {Get(response.body, "categorical_stats")} :
            /\ \A i \in 1..Len(numeric.items) :
                  \A k \in 1..Len(RequiredNumbers) :
                      IsDeclaredFloat(Get(numeric.items[i], RequiredNumbers[k]))
            /\ \A i \in 1..Len(categorical.items) :
                  IsDeclaredFloat(Get(categorical.items[i], "concentration_risk"))


-----------------------------------------------------------------------------
(* C26 *)

\* the fields of a list that are columns of the table of the call
ColumnsAmong(fields) == SelectSeq(fields, LAMBDA f : InSeq(f, CallFrame.columns))

\* the fields that the schema of the call names and that are no column
NamedButAbsent ==
    { f \in Range(call.request.schema.numeric) \cup Range(call.request.schema.categorical)
              \cup Range(call.request.schema.temporal) : ~InSeq(f, CallFrame.columns) }

\* the request of the call with the fields that are no column left out of
\* its schema
WithoutAbsent ==
    [call.request EXCEPT !.schema =
        Given(ColumnsAmong(call.request.schema.numeric),
              ColumnsAmong(call.request.schema.categorical),
              ColumnsAmong(call.request.schema.temporal))]

(* C26: a field named in a caller-supplied schema that is not a column of  *)
(* the dataset is skipped: it gets no entry in numeric_stats,              *)
(* categorical_stats or temporal_stats, and its presence in the schema     *)
(* never makes generate fail, including when compute_correlations is true  *)
(* and the schema lists two or more numeric fields.  Generate fails on the *)
(* request only if it fails as well with the field left out of the schema. *)
C26_FieldsThatAreNoColumnAreSkipped ==
    (call.fn = "generate" /\ call.request.schema.given /\ NamedButAbsent # {}) =>
        IF Raised(result)
        THEN Raised(generate(DataCardGenerator, WithoutAbsent, build.scipy).out)
        ELSE \A f \in NamedButAbsent :
                /\ ~HasKey(Get(result.val, "numeric_stats"), f)
                /\ ~HasKey(Get(result.val, "categorical_stats"), f)
                /\ ~HasKey(Get(result.val, "temporal_stats"), f)


-----------------------------------------------------------------------------
(* C27 *)

(* C27: for every non-empty list of records passed to generate,            *)
(* summary.record_count equals the number of records in the list,          *)
(* including when the records carry no fields at all (e.g. a list of empty *)
(* mappings).                                                              *)
C27_RecordCountIsTheNumberOfRecords ==
    (call.fn = "generate" /\ call.request.data # <<>> /\ ~Raised(result)) =>
        Get(Get(result.val, "summary"), "record_count") = IntV(Len(call.request.data))


-----------------------------------------------------------------------------
(* C28 *)

\* the pairs of places i < j of the columns of the matrix whose complete
\* rows determine a coefficient
PairsWithCoefficient(cols) ==
    {p \in (1..Len(cols)) \X (1..Len(cols)) : p[1] < p[2] /\ Varies(cols[p[1]], cols[p[2]])}

(* C28: distinct unordered pairs of numeric fields never share a key in    *)
(* the pearson map: the number of entries of the pearson map equals the    *)
(* number of unordered pairs of numeric columns whose coefficient is not   *)
(* NaN, for every choice of field names (including names that themselves   *)
(* contain underscores, where the key is the two names joined by '_').     *)
C28_OneEntryPerPair ==
    (call.fn = "compute_correlations" /\ ~Raised(result)) =>
        \A cols \in {CorrelatedColumns} :
            /\ Len(Pearson.keys) = Cardinality(PairsWithCoefficient(cols))
            /\ \A p, q \in PairsWithCoefficient(cols) :
                  p # q => cols[p[1]] \o "_" \o cols[p[2]] # cols[q[1]] \o "_" \o cols[q[2]]


-----------------------------------------------------------------------------
(* C29 *)

\* the number of the records of the call that hold a number under a key
CountUnder(key) ==
    Cardinality({i \in 1..Len(call.request.data) :
                    key \in DOMAIN call.request.data[i] /\ call.request.data[i][key].t = "num"})

\* the anomalies of the card about statistical outliers of a field
OutlierAnomalies(f) ==
    SelectSeq(Get(result.val, "anomalies").items,
              LAMBDA a : Get(a, "type") = Str("statistical_outlier") /\ Get(a, "field") = Str(f))

\* the outliers report of a numeric field of the card
OutliersIn(f) == Get(Get(NumericStats, f), "outliers")

(* C29: with outlier_method 'zscore' and the default threshold 3.0, a      *)
(* numeric field with at most 10 non-missing values never has any value    *)
(* flagged (outliers.count = 0 and no statistical_outlier anomaly for the  *)
(* field), whatever the values are, because the largest possible           *)
(* population z-score among N values is (N-1)/sqrt(N).  The largest        *)
(* population score of N values is sqrt(N - 1), which is 3 for ten values: *)
(* the floats decide whether the one value far from nine equal ones is     *)
(* flagged.                                                                *)
C29_TenValuesAreNeverFlagged ==
    (/\ call.fn = "generate" /\ ~Raised(result)
     /\ call.request.options.outlier_method = "zscore"
     /\ call.request.options.outlier_threshold = Flt(3, 1)) =>
        \A numeric \in {NumericStats} :
            \A f \in Range(numeric.keys) :
                CountUnder(f) <= 10 =>
                    /\ Get(Get(Get(numeric, f), "outliers"), "count") = IntV(0)
                    /\ OutlierAnomalies(f) = <<>>

(* C29, amended: with outlier_method 'zscore' and the default threshold    *)
(* 3.0, a numeric field with at most 9 non-missing values never has any    *)
(* value flagged (outliers.count = 0 and no statistical_outlier anomaly    *)
(* for the field), whatever the values are, because the largest possible   *)
(* population z-score among N values is sqrt(N - 1).                       *)
C29_NineValuesAreNeverFlagged ==
    (/\ call.fn = "generate" /\ ~Raised(result)
     /\ call.request.options.outlier_method = "zscore"
     /\ call.request.options.outlier_threshold = Flt(3, 1)) =>
        \A numeric \in {NumericStats} :
            \A f \in Range(numeric.keys) :
                CountUnder(f) <= 9 =>
                    /\ Get(Get(Get(numeric, f), "outliers"), "count") = IntV(0)
                    /\ OutlierAnomalies(f) = <<>>

\* nine values, eight of them 0 and one far from them, in ten records: the
\* largest score is sqrt(8), and nothing is flagged
C29_Witness ==
    /\ call.fn = "generate" /\ ~Raised(result)
    /\ call.request.options = DefaultOptions
    /\ Len(call.request.data) = 10 /\ CountUnder("amount") = 9
    /\ call.request.data[1].amount = NumCell(11)
    /\ \E z \in {Get(OutliersIn("amount"), "max_zscore")} :
          z.kind = "float" /\ z.rt = 2 /\ z.n = 8 * z.d
    /\ Get(OutliersIn("amount"), "count") = IntV(0)
    /\ OutlierAnomalies("amount") = <<>>

\* ten values, nine of them 0: the score of the value far from them is 3,
\* computed past 3, and the value is flagged
C29_WitnessTen ==
    /\ call.fn = "generate" /\ ~Raised(result)
    /\ call.request.options = DefaultOptions
    /\ CountUnder("amount") = 10
    /\ call.request.data[1].amount = NumCell(11)
    /\ Get(OutliersIn("amount"), "count") = IntV(1)
    /\ Len(OutlierAnomalies("amount")) = 1

\* eleven values, ten of them 0: the value far from them is flagged
C29_WitnessEleven ==
    /\ call.fn = "generate" /\ ~Raised(result)
    /\ call.request.options = DefaultOptions
    /\ CountUnder("amount") = 11
    /\ Get(OutliersIn("amount"), "count") = IntV(1)
    /\ Len(OutlierAnomalies("amount")) = 1

-----------------------------------------------------------------------------
(* C30 *)

\* the number of records of the request of the call that hold a value that
\* is not missing under the key
HeldUnder(key) ==
    Cardinality({i \in 1..Len(call.request.data) :
                    key \in DOMAIN call.request.data[i] /\ call.request.data[i][key].t # "na"})

\* the request of the call with the default outlier method
WithDefaultMethod == [call.request EXCEPT !.options.outlier_method = "zscore"]

\* the anomalies of the card about statistical outliers
AllOutlierAnomalies ==
    SelectSeq(Get(result.val, "anomalies").items,
              LAMBDA a : Get(a, "type") = Str("statistical_outlier"))

(* C30: when options.outlier_method is any string other than 'zscore' or   *)
(* 'iqr', the request is not rejected (generate fails on it only if it     *)
(* fails with the method zscore as well): every numeric field with at      *)
(* least one non-missing value gets outliers exactly {method: <the given   *)
(* string>, count: 0}, and no statistical_outlier anomaly is emitted for   *)
(* any field.                                                              *)
C30_UnknownMethodFlagsNothing ==
    (call.fn = "generate" /\ call.request.options.outlier_method \notin {"zscore", "iqr"}) =>
        IF Raised(result)
        THEN Raised(generate(DataCardGenerator, WithDefaultMethod, build.scipy).out)
        ELSE /\ \A numeric \in {NumericStats} :
                    \A f \in Range(numeric.keys) :
                        HeldUnder(f) >= 1 =>
                            Get(Get(numeric, f), "outliers")
                                = Dict(<<"method", "count">>,
                                       <<Str(call.request.options.outlier_method), IntV(0)>>)
             /\ AllOutlierAnomalies = <<>>

\* the method mad on eleven values, ten of them 0 and one far from them,
\* which zscore flags: nothing is flagged
C30_Witness ==
    /\ call.fn = "generate" /\ ~Raised(result)
    /\ call.request.options.outlier_method = "mad"
    /\ HeldUnder("amount") = 11 /\ call.request.data[1].amount = NumCell(11)
    /\ ~Raised(generate(DataCardGenerator, WithDefaultMethod, build.scipy).out)
    /\ Get(Get(Get(Get(generate(DataCardGenerator, WithDefaultMethod, build.scipy).out.val,
                        "numeric_stats"), "amount"), "outliers"), "count") = IntV(1)
    /\ OutliersIn("amount") = Dict(<<"method", "count">>, <<Str("mad"), IntV(0)>>)
    /\ AllOutlierAnomalies = <<>>

\* the method mad on a numeric field without a value: the report holds the
\* count alone
C30_WitnessNoValue ==
    /\ call.fn = "generate" /\ ~Raised(result)
    /\ call.request.options.outlier_method = "mad"
    /\ Len(call.request.data) = 2 /\ HeldUnder("amount") = 0
    /\ HasKey(NumericStats, "amount")
    /\ OutliersIn("amount") = Dict(<<"count">>, <<IntV(0)>>)

\* the method Zscore, which is not zscore
C30_WitnessOtherCase ==
    /\ call.fn = "generate" /\ ~Raised(result)
    /\ call.request.options.outlier_method = "Zscore"
    /\ HeldUnder("amount") >= 2
    /\ OutliersIn("amount") = Dict(<<"method", "count">>, <<Str("Zscore"), IntV(0)>>)

====
